---------------------------- MODULE Spec2Model ----------------------------
(***************************************************************************)
(* ElasticBLAST on AWS: the job-lifecycle orchestration core.              *)
(*                                                                         *)
(* The model follows src/src/elastic_blast/aws.py (class ElasticBlastAws); *)
(* where the older module src/src/elb/aws.py differs, a configuration      *)
(* field "module" selects the variant an object is an instance of.         *)
(*                                                                         *)
(* Backend state: the CloudFormation stacks, the AWS Batch jobs and the    *)
(* objects of the results bucket.  Program state: one ElasticBlastAws      *)
(* object per process, with the position of the call it is executing.      *)
(***************************************************************************)
EXTENDS Integers, Sequences, FiniteSets, TLC

VARIABLES stacks, jobs, s3, proc, ncalls

vars == <<stacks, jobs, s3, proc, ncalls>>

(***************************************************************************)
(* Bounds of the model.                                                    *)
(***************************************************************************)
MaxStacks == 2
MaxCalls == 3
MaxJobs == 2
MaxUnits == 2

Procs == {"p1", "p2"}

(***************************************************************************)
(* Configuration (src/src/elb/elb_config.py).                              *)
(***************************************************************************)
\* A results URI is the sequence of its '/'-separated segments after the
\* scheme; a trailing '/' shows as a last empty segment.
ResultsR1 == <<"bucket", "r1">>
ResultsR1Slash == <<"bucket", "r1", "">>

\* Variant of CloudURI that keeps the trailing '/'.
CloudURI_keep_slash(value) == value

\* CloudURI.__new__: one trailing '/' is removed.
CloudURI(value) ==
    IF Len(value) > 0 /\ value[Len(value)] = "" THEN SubSeq(value, 1, Len(value) - 1)
    ELSE value

\* CloudURI.compute_md5: the short digest of the canonical URI.
compute_md5(uri) == <<"md5">> \o uri

\* getpass.getuser() of the account that runs the processes.
Owner == "bob"

NoName == [prefix |-> "", user |-> "", digest |-> <<>>]

\* ClusterConfig.__post_init__: the default cluster name.
DefaultClusterName(results) ==
    [prefix |-> "elasticblast", user |-> Owner, digest |-> compute_md5(results)]

\* ElasticBlastConfig._init_from_parameters: cluster_name, when given,
\* replaces the default name.
ClusterName(results, cluster_name) ==
    IF cluster_name # "" THEN [prefix |-> cluster_name, user |-> "", digest |-> <<>>]
    ELSE DefaultClusterName(results)

\* submit: "query_batches = query_batches[:100]", the number of jobs of a
\* search without search (ELB_NO_SEARCH).
NoSearchJobs == 100

\* A text is a sequence of runs, each n characters of one class: "w" (a
\* letter or a digit), "_", "-", "." (any other printable character) and
\* " " (white space).
Run(c, n) == [c |-> c, n |-> n]

RECURSIVE TextLen(_)
TextLen(text) == IF text = <<>> THEN 0 ELSE Head(text).n + TextLen(Tail(text))

Chars(text) == {text[k].c : k \in 1..Len(text)}

\* text[:n]
RECURSIVE Truncate(_, _)
Truncate(text, n) ==
    IF text = <<>> \/ n <= 0 THEN <<>>
    ELSE IF Head(text).n >= n THEN <<Run(Head(text).c, n)>>
    ELSE <<Head(text)>> \o Truncate(Tail(text), n - Head(text).n)

\* text.strip()
RECURSIVE Strip(_)
Strip(text) ==
    IF text = <<>> THEN <<>>
    ELSE IF Head(text).c = " " THEN Strip(Tail(text))
    ELSE IF text[Len(text)].c = " " THEN Strip(SubSeq(text, 1, Len(text) - 1))
    ELSE text

\* getpass.getuser() as a text: "bob".
OwnerName == <<Run("w", 3)>>

\* cfg.blast.program and the basename of cfg.blast.db of the runs that do
\* not vary them: "blastn" and "pdb_nt".
Blastn == <<Run("w", 6)>>
PdbNt == <<Run("w", 3), Run("_", 1), Run("w", 2)>>

\* The configuration object of a run.
ElasticBlastConfig(value, cluster_name, dry_run, module) ==
    [results |-> CloudURI(value),
     name |-> ClusterName(CloudURI(value), cluster_name),
     custom |-> cluster_name # "",
     dry_run |-> dry_run,
     module |-> module,
     program |-> Blastn,
     db |-> PdbNt,
     db_scheme |-> "",
     db_dir |-> <<>>]

NoCfg == [results |-> <<>>, name |-> NoName, custom |-> FALSE, dry_run |-> FALSE,
          module |-> "elastic_blast", program |-> <<>>, db |-> <<>>,
          db_scheme |-> "", db_dir |-> <<>>]

(***************************************************************************)
(* Backend: CloudFormation.                                                *)
(***************************************************************************)
AllOutputs == {"JobQueueName", "JobDefinitionName"}

NoHandle == [name |-> NoName, status |-> "NONE", outputs |-> {}, id |-> 0]

\* The stack a name addresses: the one stack of that name that is not deleted.
ActiveStacks(n) ==
    {k \in 1..Len(stacks) : stacks[k].name = n /\ stacks[k].status # "DELETE_COMPLETE"}

StackByName(n) == IF ActiveStacks(n) = {} THEN 0 ELSE CHOOSE k \in ActiveStacks(n) : TRUE

\* A boto3 resource loads its attributes on first access and keeps them.
LoadStack(n) ==
    LET k == StackByName(n)
    IN [name |-> n, status |-> stacks[k].status, outputs |-> stacks[k].outputs, id |-> k]

(***************************************************************************)
(* Results bucket.                                                         *)
(***************************************************************************)
\* The content of an object is a sequence of tokens; NoBlob stands for a key
\* that holds no object (a download answers 404).
Tok(t, v) == [t |-> t, v |-> v]

NoBlob == <<Tok("absent", "")>>

\* The objects below one key prefix of the bucket that the core reads and
\* writes: metadata/job_ids.json (by: the operation that wrote it last) and
\* metadata/query_length.txt.
NoObjects == [job_ids |-> NoBlob, by |-> "none", query_length |-> NoBlob]

\* parse_bucket_name_key: the bucket of an object URI and the key inside it.
parse_bucket_name_key(uri) == [bucket |-> SubSeq(uri, 1, 1), key |-> Tail(uri)]

\* The key prefixes of the bucket that hold objects of the core: the root
\* of the bucket and the results location of the search.
S3Locations == {parse_bucket_name_key(ResultsR1).bucket, CloudURI(ResultsR1)}

(***************************************************************************)
(* ElasticBlastAws objects.                                                *)
(***************************************************************************)
NoStatus == [pending |-> 0, running |-> 0, succeeded |-> 0, failed |-> 0]

\* The locals of the call in progress (none between calls); query_batches
\* is the number of query batches a submit call was given.  The field
\* fault of an object is the error a backend call of the operation in
\* progress (or just ended) failed with: the Error.Code of its ClientError,
\* or "NoCredentialsError"; "none" when no call has failed.
NoLocals ==
    [units |-> 0, i |-> 0, extended |-> FALSE, caller |-> "", scan |-> 0,
     ids |-> <<>>, njobs |-> 0, ndone |-> 0, num_parts |-> 0,
     cloud_query_split |-> FALSE, no_search |-> FALSE, query_batches |-> 0,
     token |-> 0, found |-> <<>>,
     timeout |-> 0, counter |-> 0, attempt_number |-> 0, delay |-> 0,
     attempts |-> 0, polls |-> 0, exists |-> TRUE,
     clean_up_stack |-> <<>>, messages |-> <<>>, stages |-> <<>>,
     started |-> <<>>, ended |-> <<>>, interrupts |-> 0, late |-> 0]

NoObject ==
    [pc |-> "none", cfg |-> NoCfg, create |-> FALSE, initialized |-> TRUE,
     cf_stack |-> NoHandle, job_ids |-> <<>>,
     job_queue_name |-> 0, job_definition_name |-> 0,
     err |-> "none", message |-> <<>>, last |-> "none", requests |-> 0,
     loc |-> NoLocals, status |-> NoStatus, source |-> "none",
     fault |-> "none"]

Init ==
    /\ stacks = <<>>
    /\ jobs = <<>>
    /\ s3 = [r \in S3Locations |-> NoObjects]
    /\ proc = [p \in Procs |-> NoObject]
    /\ ncalls = 0

\* A caller invokes an operation of the interface; the lifecycle
\* specification follows runs of at most MaxCalls invocations.
Call == ncalls < MaxCalls /\ ncalls' = ncalls + 1

\* A step inside an operation, or of the backend.
Step == UNCHANGED ncalls

\* An exception that leaves the constructor: no object results.
Raise(p, code) == proc' = [proc EXCEPT ![p].pc = "failed", ![p].err = code]

\* An exception that leaves a method of a constructed object.
MethodRaise(p, code, op) ==
    proc' = [proc EXCEPT ![p].pc = "ready", ![p].err = code, ![p].last = op]

\* str.startswith on texts.
RECURSIVE StartsWith(_, _)
StartsWith(text, prefix) ==
    IF prefix = <<>> THEN TRUE
    ELSE IF text = <<>> \/ Head(text).c # Head(prefix).c THEN FALSE
    ELSE IF Head(text).n = Head(prefix).n THEN StartsWith(Tail(text), Tail(prefix))
    ELSE Head(prefix).n < Head(text).n /\ Tail(prefix) = <<>>

\* cfg.blast.db is the name of a standard database (db_scheme "") or the
\* URI of a user database: db_scheme, the '/'-separated segments up to the
\* last (db_dir, the bucket first) and the last segment (db).
UserDb(cfg, scheme, dir, name) ==
    [cfg EXCEPT !.db_scheme = scheme, !.db_dir = dir, !.db = name]

\* The buckets of the account that hold databases, and their objects: the
\* files pdb_nt.nsq and pdb_nt.nin under s3://dbs/custom/.
DatabaseBuckets == {<<"dbs">>}

DatabaseFile(name, extension) == name \o <<Run(".", 1), Run("w", extension)>>

DatabaseObjects ==
    {[bucket |-> <<"dbs">>, dir |-> <<"custom">>, file |-> DatabaseFile(PdbNt, 3)]}

\* bucket.objects.filter(Prefix=key, Delimiter='/'): the objects whose key
\* starts with the prefix and has no '/' after it.
FilterObjects(bname, key, name) ==
    {ob \in DatabaseObjects :
        /\ ob.bucket = bname
        /\ ob.dir = key
        /\ StartsWith(ob.file, name)}

\* Variant of ChecksBlastDb without the early check.
ChecksBlastDb_never(cfg, create) == FALSE

\* _init: "if create and self.cfg.blast.db".
ChecksBlastDb(cfg, create) == create /\ cfg.db # <<>>

\* _get_blastdb_info: the error the call ends with, "none" when it returns.
\* A bucket that does not exist makes the listing raise, which the bare
\* except reports like an empty listing.
get_blastdb_info(cfg) ==
    IF cfg.db_scheme = "s3://"
      THEN LET parsed == parse_bucket_name_key(cfg.db_dir)
           IN IF /\ ~cfg.dry_run
                 /\ \/ parsed.bucket \notin DatabaseBuckets
                    \/ FilterObjects(parsed.bucket, parsed.key, cfg.db) = {}
                THEN "BLASTDB_ERROR"
                ELSE "none"
    ELSE IF cfg.db_scheme = "gs://" THEN "BLASTDB_ERROR"
    ELSE "none"

\* ElasticBlastAws.__init__ / _init up to the stack lookup: the fields are
\* set, the object has no stack handle and no job ids, and a database that
\* the early check refuses ends the constructor.
Construct(p, cfg, create) ==
    /\ proc[p].pc \in {"none", "ready", "failed"}
    /\ proc' = [proc EXCEPT ![p] =
                   IF ChecksBlastDb(cfg, create) /\ get_blastdb_info(cfg) # "none"
                     THEN [NoObject EXCEPT !.pc = "failed", !.cfg = cfg, !.create = create,
                                           !.err = get_blastdb_info(cfg)]
                     ELSE [NoObject EXCEPT !.pc = "lookup", !.cfg = cfg, !.create = create]]
    /\ UNCHANGED <<stacks, jobs, s3>>

\* Variant of AlreadySubmitted without the test (as in the older module).
AlreadySubmitted_never(o) == FALSE

\* _init: a create request for a stack that exists is refused.
AlreadySubmitted(o) == o.create /\ o.cfg.module = "elastic_blast"

\* Variant of NeedsCreate that ignores the create flag.
NeedsCreate_ignore_flag(initialized, create) == ~initialized

\* _init: "if not initialized and create".
NeedsCreate(initialized, create) == ~initialized /\ create

\* _init: the existence check (the try block).
init_lookup(p) ==
    LET o == proc[p]
        next(initialized) == IF NeedsCreate(initialized, o.create) THEN "create" ELSE "outputs"
    IN
    /\ o.pc = "lookup"
    /\ IF o.cfg.dry_run
         THEN proc' = [proc EXCEPT ![p].pc = next(TRUE)]
       ELSE IF StackByName(o.cfg.name) = 0
         THEN \* ClientError: the stack does not exist
              proc' = [proc EXCEPT ![p].initialized = FALSE, ![p].pc = next(FALSE)]
       ELSE IF AlreadySubmitted(o)
         THEN Raise(p, "INPUT_ERROR")
       ELSE proc' = [proc EXCEPT ![p].cf_stack = LoadStack(o.cfg.name),
                                 ![p].pc = next(TRUE)]
    /\ UNCHANGED <<stacks, jobs, s3>>

\* handle_aws_error: the error code a NoCredentialsError or a ClientError
\* is reported with.
handle_aws_error(code) ==
    IF code = "NoCredentialsError" THEN "PERMISSIONS_ERROR"
    ELSE IF code \in {"AccessDenied", "RequestExpired", "ExpiredToken", "ExpiredTokenException"}
      THEN "PERMISSIONS_ERROR"
      ELSE "CLUSTER_ERROR"

\* The errors botocore raises as ClientError (NoCredentialsError is a
\* BotoCoreError).
IsClientError(code) == code # "NoCredentialsError"

\* Variant of LookupSwallows in which the except clause takes only the
\* error of a stack that does not exist.
LookupSwallows_none(code) == FALSE

\* _init: "except ClientError: self.cf_stack = None; initialized = False"
\* takes every ClientError of the existence check for a stack that does
\* not exist.
LookupSwallows(code) == IsClientError(code)

\* _init: the existence check when the call that loads the stack status
\* fails for another reason than a stack that does not exist.
init_lookup_error(p, code) ==
    LET o == proc[p]
        next == IF NeedsCreate(FALSE, o.create) THEN "create" ELSE "outputs"
    IN
    /\ o.pc = "lookup"
    /\ ~o.cfg.dry_run
    /\ IF LookupSwallows(code)
         THEN proc' = [proc EXCEPT ![p].initialized = FALSE, ![p].pc = next,
                                   ![p].fault = code]
         ELSE proc' = [proc EXCEPT ![p].pc = "failed", ![p].fault = code,
                                   ![p].err = handle_aws_error(code)]
    /\ UNCHANGED <<stacks, jobs, s3>>

\* _init: cf.create_stack fails with a ClientError or without credentials.
init_create_error(p, code) ==
    LET o == proc[p] IN
    /\ o.pc = "create"
    /\ proc' = [proc EXCEPT ![p].pc = "failed", ![p].fault = code,
                            ![p].err = handle_aws_error(code),
                            ![p].requests = @ + 1]
    /\ UNCHANGED <<stacks, jobs, s3>>

\* Variant of init_create that looks for the stack once more and issues no
\* request when another process has created it in between.
init_create_rechecks(p) ==
    LET o == proc[p] IN
    /\ o.pc = "create"
    /\ Len(stacks) < MaxStacks
    /\ IF StackByName(o.cfg.name) # 0
         THEN /\ proc' = [proc EXCEPT ![p].pc = "failed", ![p].err = "INPUT_ERROR"]
              /\ UNCHANGED stacks
         ELSE /\ stacks' = Append(stacks,
                     [name |-> o.cfg.name, owner |-> Owner,
                      token |-> compute_md5(o.cfg.results),
                      results |-> o.cfg.results,
                      status |-> "CREATE_IN_PROGRESS", outputs |-> {},
                      events |-> <<>>])
              /\ proc' = [proc EXCEPT ![p].pc = "wait_create",
                                      ![p].requests = @ + 1,
                                      ![p].cf_stack = [NoHandle EXCEPT !.name = o.cfg.name,
                                                                       !.status = "UNLOADED"]]
    /\ UNCHANGED <<jobs, s3>>

\* _init: cf.create_stack.  CloudFormation refuses a name that an existing
\* stack holds (AlreadyExistsException, a ClientError).
init_create(p) ==
    LET o == proc[p] IN
    /\ o.pc = "create"
    /\ Len(stacks) < MaxStacks
    /\ IF StackByName(o.cfg.name) # 0
         THEN /\ proc' = [proc EXCEPT ![p].pc = "failed", ![p].err = "CLUSTER_ERROR",
                                      ![p].requests = @ + 1]
              /\ UNCHANGED stacks
         ELSE /\ stacks' = Append(stacks,
                     [name |-> o.cfg.name, owner |-> Owner,
                      token |-> compute_md5(o.cfg.results),
                      results |-> o.cfg.results,
                      status |-> "CREATE_IN_PROGRESS", outputs |-> {},
                      events |-> <<>>])
              /\ proc' = [proc EXCEPT ![p].pc = "wait_create",
                                      ![p].requests = @ + 1,
                                      ![p].cf_stack = [NoHandle EXCEPT !.name = o.cfg.name,
                                                                       !.status = "UNLOADED"]]
    /\ UNCHANGED <<jobs, s3>>

\* The states in which the stack_create_complete waiter gives up at once.
CreateWaiterFailure == {"ROLLBACK_COMPLETE", "DELETE_FAILED"}

\* A stack event: the reason is the sequence of its phrases.
StackEvent(id, status, reason) ==
    [logical_resource_id |-> id, resource_status |-> status,
     resource_status_reason |-> reason]

\* Variant of IsCancelled that takes no event for a cancelled one.
IsCancelled_never(reason) == FALSE

\* _get_cloudformation_errors: "'Resource creation cancelled' in
\* event.resource_status_reason".
IsCancelled(reason) ==
    \E i \in 1..Len(reason) : reason[i] = "Resource creation cancelled"

\* _get_cloudformation_errors: one line "{logical_resource_id}: {reason}"
\* for each CREATE_FAILED or DELETE_FAILED event that is not a cancellation.
RECURSIVE get_cloudformation_errors(_, _)
get_cloudformation_errors(events, k) ==
    IF k > Len(events) THEN <<>>
    ELSE LET event == events[k]
             line == [t |-> "event", id |-> event.logical_resource_id,
                      reason |-> event.resource_status_reason]
         IN (IF /\ event.resource_status \in {"CREATE_FAILED", "DELETE_FAILED"}
                /\ ~IsCancelled(event.resource_status_reason)
               THEN <<line>> ELSE <<>>)
            \o get_cloudformation_errors(events, k + 1)

\* '. '.join(stack_messages)
RECURSIVE JoinLines(_, _)
JoinLines(lines, k) ==
    IF k > Len(lines) THEN <<>>
    ELSE (IF k > 1 THEN <<Tok("text", ". ")>> ELSE <<>>) \o <<lines[k]>>
         \o JoinLines(lines, k + 1)

\* _init: the message of the DEPENDENCY_ERROR for a failed creation.
CreationFailedMessage(stack_messages) ==
    <<Tok("text", "Cloudformation stack creation failed")>>
    \o (IF stack_messages # <<>>
          THEN <<Tok("text", " with error message ")>> \o JoinLines(stack_messages, 1)
          ELSE <<Tok("text", " for unknown reason.")>>)
    \o <<Tok("text", " Please, run elastic-blast delete to remove cloudformation stack with errors")>>

\* _init: waiter.wait(StackName).  The waiter returns when the stack is
\* CREATE_COMPLETE, raises WaiterError when the stack failed or is gone, and
\* raises WaiterError when its attempts are used up on a stack in progress.
init_wait(p) ==
    LET o == proc[p]
        k == StackByName(o.cfg.name)
    IN
    /\ o.pc = "wait_create"
    /\ \/ /\ k # 0 /\ stacks[k].status = "CREATE_COMPLETE"
          /\ proc' = [proc EXCEPT ![p].pc = "created"]
       \/ /\ IF k = 0 THEN TRUE ELSE stacks[k].status \in CreateWaiterFailure
          /\ proc' = [proc EXCEPT ![p].pc = "create_waiter_error"]
       \/ /\ k # 0 /\ stacks[k].status \in {"CREATE_IN_PROGRESS", "DELETE_IN_PROGRESS"}
          /\ proc' = [proc EXCEPT ![p].pc = "create_waiter_error"]
    /\ UNCHANGED <<stacks, jobs, s3>>

\* Variant of WaitTimedOut that never reports a timeout.
WaitTimedOut_never(stack_status) == FALSE

\* _init: "if self.cf_stack.stack_status == 'CREATE_IN_PROGRESS'" in the
\* WaiterError handler: the attempts of the waiter were used up.
WaitTimedOut(stack_status) == stack_status = "CREATE_IN_PROGRESS"

\* _init: the except WaiterError block.  stack_status is loaded here for the
\* first time; a stack that is gone makes the load raise ClientError.
init_waiter_error(p) ==
    LET o == proc[p]
        k == StackByName(o.cfg.name)
    IN
    /\ o.pc = "create_waiter_error"
    /\ IF k = 0 THEN Raise(p, "CLUSTER_ERROR")
       ELSE IF WaitTimedOut(stacks[k].status) THEN Raise(p, "TIMEOUT_ERROR")
       ELSE IF stacks[k].status # "CREATE_COMPLETE"
         THEN proc' = [proc EXCEPT ![p].cf_stack = LoadStack(o.cfg.name),
                                   ![p].pc = "create_errors"]
       ELSE proc' = [proc EXCEPT ![p].cf_stack = LoadStack(o.cfg.name), ![p].pc = "outputs"]
    /\ UNCHANGED <<stacks, jobs, s3>>

\* _init: the creation failed; cf_stack.events.all() is asked for the events
\* of the stack of that name (a ClientError when there is none) and the
\* DEPENDENCY_ERROR is raised with the message made of them.
init_errors(p) ==
    LET o == proc[p]
        k == StackByName(o.cfg.name)
    IN
    /\ o.pc = "create_errors"
    /\ IF k = 0 THEN Raise(p, "CLUSTER_ERROR")
       ELSE proc' = [proc EXCEPT
               ![p].pc = "failed", ![p].err = "DEPENDENCY_ERROR",
               ![p].message =
                   CreationFailedMessage(get_cloudformation_errors(stacks[k].events, 1))]
    /\ UNCHANGED <<stacks, jobs, s3>>

\* _init: "status = self.cf_stack.stack_status" after the waiter returned.
init_created(p) ==
    LET o == proc[p]
        k == StackByName(o.cfg.name)
    IN
    /\ o.pc = "created"
    /\ IF k = 0 THEN Raise(p, "CLUSTER_ERROR")
       ELSE proc' = [proc EXCEPT ![p].cf_stack = LoadStack(o.cfg.name), ![p].pc = "outputs"]
    /\ UNCHANGED <<stacks, jobs, s3>>

\* Variant of ReadsOutputs that reads the outputs of a stack in any status.
ReadsOutputs_any_status(o) == ~o.cfg.dry_run /\ o.cf_stack # NoHandle

\* _init: "if not self.dry_run and self.cf_stack and
\* self.cf_stack.stack_status == 'CREATE_COMPLETE'".
ReadsOutputs(o) ==
    ~o.cfg.dry_run /\ o.cf_stack # NoHandle /\ o.cf_stack.status = "CREATE_COMPLETE"

\* _init: job queue name and job definition name from the stack outputs.
\* The value of an output is named by the stack that declares it.  For a
\* stack without outputs the answer of DescribeStacks has no Outputs member
\* and cf_stack.outputs is None: "for output in self.cf_stack.outputs"
\* raises TypeError.
init_outputs(p) ==
    LET o == proc[p]
        h == o.cf_stack
        queue == IF "JobQueueName" \in h.outputs THEN h.id ELSE 0
        definition == IF "JobDefinitionName" \in h.outputs THEN h.id ELSE 0
    IN
    /\ o.pc = "outputs"
    /\ IF ReadsOutputs(o)
         THEN IF h.outputs = {}
                THEN Raise(p, "TypeError")
              ELSE IF queue = 0 \/ definition = 0
                THEN Raise(p, "DEPENDENCY_ERROR")
                ELSE proc' = [proc EXCEPT ![p].job_queue_name = queue,
                                          ![p].job_definition_name = definition,
                                          ![p].pc = "ready", ![p].last = "init"]
         ELSE proc' = [proc EXCEPT ![p].pc = "ready", ![p].last = "init"]
    /\ UNCHANGED <<stacks, jobs, s3>>

(***************************************************************************)
(* delete                                                                  *)
(***************************************************************************)
\* _remove_ancillary_data: the key prefix whose query_batches, metadata and
\* logs directories are emptied.  Only the bucket name of the results
\* location is kept (bname, _ = parse_bucket_name_key(...)) and the filter
\* prefix is the bare directory name, so the directories are those at the
\* root of the bucket.
RemoveAncillaryData(results) == parse_bucket_name_key(results).bucket

\* Variant of DeleteIsNoop that goes on without a stack handle.
DeleteIsNoop_dry_run_only(o) == o.cfg.dry_run

\* delete: "if not self.dry_run" and, under it, "if not self.cf_stack:
\* return".
DeleteIsNoop(o) == o.cfg.dry_run \/ o.cf_stack = NoHandle

\* delete: no-op in dry-run or without a stack handle; otherwise
\* cf_stack.delete() is issued.
delete_stack(p) ==
    LET o == proc[p]
        k == StackByName(o.cf_stack.name)
    IN
    /\ o.pc = "ready"
    /\ IF DeleteIsNoop(o)
         THEN /\ proc' = [proc EXCEPT ![p].last = "delete_noop", ![p].err = "none",
                                      ![p].fault = "none", ![p].message = <<>>]
              /\ UNCHANGED stacks
         ELSE /\ proc' = [proc EXCEPT ![p].pc = "remove_data", ![p].err = "none",
                                      ![p].fault = "none", ![p].message = <<>>]
              /\ stacks' = IF k = 0 THEN stacks
                           ELSE [stacks EXCEPT ![k].status = "DELETE_IN_PROGRESS"]
    /\ UNCHANGED <<jobs, s3>>

\* delete: the three _remove_ancillary_data calls.
delete_data(p) ==
    LET o == proc[p] IN
    /\ o.pc = "remove_data"
    /\ s3' = [s3 EXCEPT ![RemoveAncillaryData(o.cfg.results)] = NoObjects]
    /\ proc' = [proc EXCEPT ![p].pc = "wait_delete"]
    /\ UNCHANGED <<stacks, jobs>>

\* delete: the stack_delete_complete waiter.  It returns when the stack is
\* gone and raises WaiterError when the stack failed to delete or when its
\* attempts are used up on a stack that is still there.
delete_wait(p) ==
    LET o == proc[p]
        k == StackByName(o.cf_stack.name)
    IN
    /\ o.pc = "wait_delete"
    /\ proc' = [proc EXCEPT ![p] =
          IF k = 0 THEN [o EXCEPT !.pc = "ready", !.last = "deleted"]
          ELSE [o EXCEPT !.pc = "delete_waiter_error"]]
    /\ UNCHANGED <<stacks, jobs, s3>>

\* Variant of DeleteTimedOut that never reports a timeout.
DeleteTimedOut_never(stack_status) == FALSE

\* delete: "if self.cf_stack.stack_status == 'DELETE_IN_PROGRESS'" in the
\* WaiterError handler.
DeleteTimedOut(stack_status) == stack_status = "DELETE_IN_PROGRESS"

\* delete: the message of the DEPENDENCY_ERROR for a failed deletion.
DeletionFailedMessage(stack_messages) ==
    <<Tok("text", "Cloudformation stack deletion failed")>>
    \o (IF stack_messages # <<>>
          THEN <<Tok("text", " with errors ")>> \o JoinLines(stack_messages, 1)
          ELSE <<Tok("text", " for unknown reason")>>)

DeletionTimedOutMessage == <<Tok("text", "Cloudformation stack deletion has timed out")>>

\* delete: the except WaiterError block.  cf_stack.delete() has cleared the
\* attributes the handle had loaded, so stack_status is loaded again here;
\* a stack that is gone by now makes the load raise ClientError.
delete_waiter_error(p) ==
    LET o == proc[p]
        k == StackByName(o.cf_stack.name)
        raised(code, message) ==
            [o EXCEPT !.pc = "ready", !.err = code, !.last = "delete", !.message = message]
    IN
    /\ o.pc = "delete_waiter_error"
    /\ proc' = [proc EXCEPT ![p] =
          IF k = 0
            THEN [raised(handle_aws_error("ValidationError"), <<>>) EXCEPT
                     !.fault = "ValidationError"]
          ELSE IF DeleteTimedOut(stacks[k].status)
            THEN [raised("TIMEOUT_ERROR", DeletionTimedOutMessage) EXCEPT
                     !.cf_stack = LoadStack(o.cf_stack.name)]
          ELSE IF stacks[k].status # "DELETE_COMPLETE"
            THEN [raised("DEPENDENCY_ERROR",
                         DeletionFailedMessage(
                             get_cloudformation_errors(stacks[k].events, 1))) EXCEPT
                     !.cf_stack = LoadStack(o.cf_stack.name)]
          ELSE [o EXCEPT !.pc = "ready", !.last = "deleted"]]
    /\ UNCHANGED <<stacks, jobs, s3>>

(***************************************************************************)
(* Backend steps.                                                          *)
(***************************************************************************)
OutputChoices == {AllOutputs, {"JobDefinitionName"}, {}}

\* The events CloudFormation records when the creation of a stack fails:
\* the resource that failed with its reason, the resources whose creation
\* was cancelled because of it, and resources that were created.
CreateFailureEvents ==
    {<<>>,
     <<StackEvent("ComputeEnv", "CREATE_FAILED", <<"InsufficientCapacity">>)>>,
     <<StackEvent("Vpc", "CREATE_COMPLETE", <<>>),
       StackEvent("JobQueue", "CREATE_FAILED", <<"Resource creation cancelled">>),
       StackEvent("ComputeEnv", "CREATE_FAILED", <<"InsufficientCapacity">>),
       StackEvent("JobRole", "CREATE_FAILED", <<"AccessDenied", "iam:CreateRole">>)>>}

\* The event of a resource that could not be deleted.
DeleteFailureEvent == StackEvent("Vpc", "DELETE_FAILED", <<"DependencyViolation">>)

\* CloudFormation adds the event to those of the stack.  A deletion that
\* fails again adds an event equal to the last one; the model keeps one.
RecordEvent(events, event) ==
    IF events # <<>> /\ events[Len(events)] = event THEN events
    ELSE Append(events, event)

stack_progress(k) ==
    /\ k \in 1..Len(stacks)
    /\ \/ /\ stacks[k].status = "CREATE_IN_PROGRESS"
          /\ \/ \E outs \in OutputChoices :
                   stacks' = [stacks EXCEPT ![k].status = "CREATE_COMPLETE",
                                            ![k].outputs = outs]
             \/ \E events \in CreateFailureEvents :
                   stacks' = [stacks EXCEPT ![k].status = "ROLLBACK_COMPLETE",
                                            ![k].events = events]
       \/ /\ stacks[k].status = "DELETE_IN_PROGRESS"
          /\ \/ stacks' = [stacks EXCEPT ![k].status = "DELETE_COMPLETE"]
             \/ stacks' = [stacks EXCEPT ![k].status = "DELETE_FAILED",
                                         ![k].events = RecordEvent(@, DeleteFailureEvent)]
    /\ UNCHANGED <<jobs, s3, proc>>

InfraConfigs ==
    {ElasticBlastConfig(v, n, FALSE, "elastic_blast") :
        v \in {ResultsR1, ResultsR1Slash}, n \in {"", "custom"}}

Ensure(p) ==
    \/ init_lookup(p)
    \/ init_create(p)
    \/ init_wait(p)
    \/ init_waiter_error(p)
    \/ init_errors(p)
    \/ init_created(p)
    \/ init_outputs(p)

Delete(p) ==
    \/ delete_stack(p) /\ Call
    \/ delete_data(p) /\ Step
    \/ delete_wait(p) /\ Step
    \/ delete_waiter_error(p) /\ Step

Next ==
    \/ \E p \in Procs, cfg \in InfraConfigs, create \in BOOLEAN :
          Construct(p, cfg, create) /\ Call
    \/ \E p \in Procs : Ensure(p) /\ Step
    \/ \E p \in Procs : Delete(p)
    \/ \E k \in 1..MaxStacks : stack_progress(k) /\ Step

Spec == Init /\ [][Next]_vars

(***************************************************************************)
(* Backend: AWS Batch.                                                     *)
(***************************************************************************)
\* The job ids AWS Batch hands out, in the order of the submissions.
JobIdPool == [k \in 1..(NoSearchJobs + MaxJobs + 1) |-> <<"job", k>>]

AWS_BATCH_JOB_STATES ==
    <<"SUBMITTED", "PENDING", "RUNNABLE", "STARTING", "RUNNING", "SUCCEEDED", "FAILED">>

Terminal == {"SUCCEEDED", "FAILED"}

Range(f) == {f[x] : x \in DOMAIN f}

Min(a, b) == IF a < b THEN a ELSE b

\* The job a job id names (0: none).
JobById(id) ==
    IF \E k \in 1..Len(jobs) : jobs[k].id = id
      THEN CHOOSE k \in 1..Len(jobs) : jobs[k].id = id
      ELSE 0

\* batch.list_jobs answers one page of at most ListPageSize summaries and a
\* nextToken while summaries remain (0: no nextToken in the answer).  The
\* jobs of a queue are listed in the order of their submission, and a
\* nextToken resumes the listing after the last job of the page it came
\* with: a job that leaves the state between two pages does not shift the
\* jobs that stay.
ListPageSize == 1

\* The n smallest numbers of S, in ascending order.
RECURSIVE FirstOf(_, _)
FirstOf(S, n) ==
    IF S = {} \/ n = 0 THEN <<>>
    ELSE LET m == CHOOSE x \in S : \A y \in S : x <= y
         IN <<m>> \o FirstOf(S \ {m}, n - 1)

list_jobs(jobQueue, jobStatus, nextToken) ==
    LET matching == {k \in 1..Len(jobs) :
                        /\ jobs[k].queue = jobQueue
                        /\ jobs[k].status = jobStatus
                        /\ k > nextToken}
        page == FirstOf(matching, ListPageSize)
    IN [jobSummaryList |-> [n \in 1..Len(page) |-> jobs[page[n]]],
        nextToken |-> IF Len(page) < Cardinality(matching) THEN page[Len(page)] ELSE 0]

\* batch.describe_jobs(jobs=ids): the jobs that exist, in the order asked.
describe_jobs(ids) ==
    LET known == SelectSeq(ids, LAMBDA id : JobById(id) # 0)
    IN [k \in 1..Len(known) |-> jobs[JobById(known[k])]]

\* A ClientError code a failing backend call carries.
ErrorCodes == {"AccessDenied", "ServerException"}

(***************************************************************************)
(* The job-id ledger: a JSON array of strings.                             *)
(***************************************************************************)
\* The elements of ids from number k on, each one but the first of the
\* array after a comma.
JsonItems(ids, k) ==
    LET lead == IF k > 1 THEN 1 ELSE 0
        len == IF k > Len(ids) THEN 0 ELSE 2 * (Len(ids) - k + 1) - 1 + lead
    IN [m \in 1..len |->
            LET q == m + 1 - lead
            IN IF q % 2 = 0 THEN Tok("str", ids[k - 1 + q \div 2]) ELSE Tok(",", "")]

\* Variant of JsonDumps that writes the elements last to first.
JsonDumps_reversed(ids) ==
    <<Tok("[", "")>> \o JsonItems([k \in 1..Len(ids) |-> ids[Len(ids) + 1 - k]], 1)
                     \o <<Tok("]", "")>>

\* json.dumps(list of str)
JsonDumps(ids) == <<Tok("[", "")>> \o JsonItems(ids, 1) \o <<Tok("]", "")>>

\* json.load: the parse of an array of strings; what is not one is an error.
JsonError == <<"<JSONDecodeError>">>

RECURSIVE JsonParseItems(_, _, _)
JsonParseItems(toks, k, acc) ==
    IF k + 1 > Len(toks) THEN JsonError
    ELSE IF toks[k].t # "str" THEN JsonError
    ELSE IF toks[k + 1].t = "]"
      THEN IF k + 1 = Len(toks) THEN Append(acc, toks[k].v) ELSE JsonError
    ELSE IF toks[k + 1].t = ","
      THEN JsonParseItems(toks, k + 2, Append(acc, toks[k].v))
    ELSE JsonError

JsonLoads(toks) ==
    IF Len(toks) < 2 \/ toks[1].t # "[" THEN JsonError
    ELSE IF toks[2].t = "]" THEN IF Len(toks) = 2 THEN <<>> ELSE JsonError
    ELSE JsonParseItems(toks, 2, <<>>)

(***************************************************************************)
(* submit                                                                  *)
(***************************************************************************)
\* Variant of AppendJobId that puts the newest id first.
AppendJobId_prepend(job_ids, id) == <<id>> \o job_ids

\* submit: self.job_ids.append(job['jobId'])
AppendJobId(job_ids, id) == Append(job_ids, id)

\* Variant of HasBlastDb in which every constructor call sets the attributes.
HasBlastDb_always(o) == TRUE

\* _init: "if create and self.cfg.blast.db: self.db, self.db_path,
\* self.db_label = self._get_blastdb_info()"; nothing else sets the three
\* attributes.  The runs followed here configure a database.
HasBlastDb(o) == o.create

\* The length of an AWS Batch job name that sanitize_aws_batch_job_name cuts
\* its result to (AWS_MAX_JOBNAME_LENGTH of constants.py).
AWS_MAX_JOBNAME_LENGTH == 128

\* sanitize_aws_batch_job_name: re.sub(r'[\W\-]', '-', input_name.strip(),
\* flags=re.ASCII)[:AWS_MAX_JOBNAME_LENGTH]
sanitize_aws_batch_job_name(input_name) ==
    LET stripped == Strip(input_name)
        sub == [k \in 1..Len(stripped) |->
                   Run(IF stripped[k].c \in {"w", "_"} THEN stripped[k].c ELSE "-",
                       stripped[k].n)]
    IN Truncate(sub, AWS_MAX_JOBNAME_LENGTH)

\* _get_blastdb_info: the label of the database, kept in self.db_label.
db_label(o) == sanitize_aws_batch_job_name(o.cfg.db)

DigitChars == <<"0", "1", "2", "3", "4", "5", "6", "7", "8", "9">>

\* The decimal digits of a natural number, the most significant first.
RECURSIVE Digits(_)
Digits(n) ==
    IF n < 10 THEN <<DigitChars[n + 1]>>
    ELSE Digits(n \div 10) \o <<DigitChars[(n % 10) + 1]>>

\* str(i), character by character.
IntStr(i) == IF i < 0 THEN <<"-">> \o Digits(0 - i) ELSE Digits(i)

\* str(i) of an index, as a text.
Str(i) == <<Run("w", Len(IntStr(i)))>>

\* The number of parts that stands for "not known" (constants.py).
ELB_UNKNOWN_NUMBER_OF_QUERY_SPLITS == 0 - 1

\* Variant of NumParts that takes the number of jobs of the call.
NumParts_dispatched(n, cloud_query_split, no_search) ==
    IF cloud_query_split
      THEN IF no_search THEN Min(n, NoSearchJobs) ELSE n
      ELSE ELB_UNKNOWN_NUMBER_OF_QUERY_SPLITS

\* submit: num_parts, set before the list of query batches is cut.
NumParts(n, cloud_query_split, no_search) ==
    IF cloud_query_split THEN n ELSE ELB_UNKNOWN_NUMBER_OF_QUERY_SPLITS

\* submit: the query batches that get a job; a search without search that
\* is split in the cloud keeps the first NoSearchJobs.
QueryBatches(n, cloud_query_split, no_search) ==
    IF no_search /\ cloud_query_split THEN Min(n, NoSearchJobs) ELSE n

\* submit: parameters['split-part'] and parameters['num-parts'] of the job
\* of query batch i (the older module passes neither).
SplitParameters(o) ==
    IF o.cfg.module = "elastic_blast"
      THEN [split_part |-> IntStr(o.loc.i), num_parts |-> IntStr(o.loc.num_parts)]
      ELSE [split_part |-> <<>>, num_parts |-> <<>>]

\* submit: jname = f'elasticblast-{self.owner}-{prog}-batch-{self.db_label}-job-{i}'
JobName(owner, prog, label, i) ==
    <<Run("w", 12), Run("-", 1)>> \o owner \o <<Run("-", 1)>> \o prog
    \o <<Run("-", 1), Run("w", 5), Run("-", 1)>> \o label
    \o <<Run("-", 1), Run("w", 3), Run("-", 1)>> \o Str(i)

\* AWS Batch takes a job name of up to 128 letters, digits, hyphens and
\* underscores that begins with a letter or a digit; SubmitJob with another
\* name is refused with a ClientError.
BatchAcceptsJobName(name) ==
    /\ name # <<>>
    /\ Head(name).c = "w"
    /\ Chars(name) \subseteq {"w", "_", "-"}
    /\ TextLen(name) <= 128

\* submit: "self.job_ids = []" and the entry of the loop over the query
\* batches; in dry-run nothing is submitted and nothing is uploaded.  The
\* parameters of the jobs are built first, from self.db and self.db_path:
\* on an object that lacks the attributes the read raises AttributeError.
submit_call(p, n, cloud_query_split, no_search, max_jobs) ==
    LET o == proc[p]
        units == QueryBatches(n, cloud_query_split, no_search)
    IN
    /\ o.pc = "ready"
    /\ Len(jobs) + units <= max_jobs
    /\ proc' = [proc EXCEPT ![p] =
          IF ~HasBlastDb(o)
            THEN [o EXCEPT !.job_ids = <<>>, !.err = "AttributeError", !.fault = "none",
                           !.message = <<>>, !.last = "submit"]
          ELSE IF o.cfg.dry_run
            THEN [o EXCEPT !.job_ids = <<>>, !.err = "none", !.fault = "none", !.message = <<>>,
                           !.last = "submit"]
            ELSE [o EXCEPT !.job_ids = <<>>, !.err = "none", !.fault = "none", !.message = <<>>,
                           !.pc = "submit_loop",
                           !.loc = [NoLocals EXCEPT
                                       !.units = units,
                                       !.cloud_query_split = cloud_query_split,
                                       !.no_search = no_search,
                                       !.query_batches = n,
                                       !.num_parts =
                                           NumParts(n, cloud_query_split, no_search)]]]
    /\ UNCHANGED <<stacks, jobs, s3>>

\* submit of n query batches split on the local host, ELB_NO_SEARCH not
\* set, while the backend holds at most MaxJobs jobs.
submit_start(p, n) == submit_call(p, n, FALSE, FALSE, MaxJobs)

\* submit: one turn of the loop, batch.submit_job for query batch number i.
\* The call is accepted, or fails with a ClientError that handle_aws_error
\* reports; without a job queue name botocore raises ParamValidationError,
\* which handle_aws_error does not catch.
submit_job(p) ==
    LET o == proc[p]
        id == JobIdPool[Len(jobs) + 1]
        jname == JobName(OwnerName, o.cfg.program, db_label(o), o.loc.i)
        job == [id |-> id, queue |-> o.job_queue_name, status |-> "SUBMITTED",
                index |-> o.loc.i, name |-> jname, parameters |-> SplitParameters(o)]
        raised(code) == [o EXCEPT !.pc = "ready", !.err = code, !.last = "submit",
                                  !.loc = NoLocals]
    IN
    /\ o.pc = "submit_loop"
    /\ IF o.job_queue_name = 0
         THEN /\ proc' = [proc EXCEPT ![p] = raised("ParamValidationError")]
              /\ UNCHANGED jobs
         ELSE \/ /\ BatchAcceptsJobName(jname)
                 /\ jobs' = Append(jobs, job)
                 /\ proc' = [proc EXCEPT ![p] =
                       [o EXCEPT !.job_ids = AppendJobId(o.job_ids, id),
                                 !.loc.i = o.loc.i + 1,
                                 !.pc = IF o.loc.i + 1 = o.loc.units
                                          THEN "submit_upload" ELSE "submit_loop"]]
              \/ /\ \E code \in ErrorCodes :
                       proc' = [proc EXCEPT ![p] =
                           [raised(handle_aws_error(code)) EXCEPT !.fault = code]]
                 /\ UNCHANGED jobs
    /\ UNCHANGED <<stacks, s3>>

\* Variant of upload_job_ids that writes nothing.
upload_job_ids_skip(blobs, job_ids, by) == blobs

\* upload_job_ids: put_object(Body=json.dumps(self.job_ids).encode(), ...)
upload_job_ids(blobs, job_ids, by) ==
    [blobs EXCEPT !.job_ids = JsonDumps(job_ids), !.by = by]

\* submit: the upload of the job ids after the loop.
submit_upload(p) ==
    LET o == proc[p] IN
    /\ o.pc = "submit_upload"
    /\ s3' = [s3 EXCEPT ![o.cfg.results] = upload_job_ids(@, o.job_ids, "submit")]
    /\ proc' = [proc EXCEPT ![p] = [o EXCEPT !.pc = "ready", !.last = "submit",
                                             !.loc = NoLocals]]
    /\ UNCHANGED <<stacks, jobs>>

\* Variant of PutQueryLength that writes in dry-run too.
PutQueryLength_always(blobs, query_length, dry_run) ==
    [blobs EXCEPT !.query_length = <<Tok("int", query_length)>>]

\* upload_query_length: "if self.dry_run: return", otherwise put_object of
\* str(query_length) at metadata/query_length.txt of the results location.
PutQueryLength(blobs, query_length, dry_run) ==
    IF dry_run THEN blobs
    ELSE [blobs EXCEPT !.query_length = <<Tok("int", query_length)>>]

QueryLengths == {100, 250}

\* upload_query_length.  The method is not wrapped by handle_aws_error: a
\* ClientError of put_object leaves it as it is.
upload_query_length(p, n) ==
    LET o == proc[p] IN
    /\ o.pc = "ready"
    /\ \E outcome \in IF o.cfg.dry_run THEN {"none"} ELSE {"none", "ClientError"} :
          /\ s3' = IF outcome = "none"
                     THEN [s3 EXCEPT ![o.cfg.results] = PutQueryLength(@, n, o.cfg.dry_run)]
                     ELSE s3
          /\ proc' = [proc EXCEPT ![p].err = outcome, ![p].fault = "none", ![p].message = <<>>,
                                  ![p].last = "upload_query_length"]
    /\ UNCHANGED <<stacks, jobs>>

\* AWS Batch moves a job forward through its states; a job that has not
\* finished may fail.
job_progress(k) ==
    /\ k \in 1..Len(jobs)
    /\ \E n \in 1..(Len(AWS_BATCH_JOB_STATES) - 2) :
          /\ jobs[k].status = AWS_BATCH_JOB_STATES[n]
          /\ \/ jobs' = [jobs EXCEPT ![k].status = AWS_BATCH_JOB_STATES[n + 1]]
             \/ jobs' = [jobs EXCEPT ![k].status = "FAILED"]
    /\ UNCHANGED <<stacks, s3, proc>>

\* AWS Batch keeps an ended job for a limited time; after that
\* describe_jobs no longer answers for its id.
job_expire(k) ==
    /\ k \in 1..Len(jobs)
    /\ jobs[k].status \in Terminal
    /\ jobs' = [n \in 1..(Len(jobs) - 1) |-> IF n < k THEN jobs[n] ELSE jobs[n + 1]]
    /\ UNCHANGED <<stacks, s3, proc>>

(***************************************************************************)
(* check_status                                                            *)
(***************************************************************************)
\* The list_jobs loop of get_job_ids and _check_status_extended: the first
\* page and the pages the nextToken of an answer leads to.
RECURSIVE ListAllPages(_, _, _)
ListAllPages(jobQueue, jobStatus, nextToken) ==
    LET batch_of_jobs == list_jobs(jobQueue, jobStatus, nextToken)
    IN IF batch_of_jobs.nextToken = 0
         THEN batch_of_jobs.jobSummaryList
         ELSE batch_of_jobs.jobSummaryList
              \o ListAllPages(jobQueue, jobStatus, batch_of_jobs.nextToken)

\* get_job_ids: "ids[j['jobId']] = 1" for the summaries of a listing; a
\* dict keeps its keys in the order of their first insertion.
RECURSIVE AddIds_no_dedup(_, _, _)
AddIds_no_dedup(ids, summaries, k) ==
    IF k > Len(summaries) THEN ids
    ELSE AddIds_no_dedup(Append(ids, summaries[k].id), summaries, k + 1)

RECURSIVE AddIds(_, _, _)
AddIds(ids, summaries, k) ==
    IF k > Len(summaries) THEN ids
    ELSE AddIds(IF summaries[k].id \in Range(ids) THEN ids
                ELSE Append(ids, summaries[k].id),
                summaries, k + 1)

\* _check_status_extended: "jobs[j['jobId']] = j" for the summaries of a
\* listing; a later summary of the same job replaces the earlier one.
RECURSIVE PutJobs(_, _, _)
PutJobs(found, summaries, k) ==
    IF k > Len(summaries) THEN found
    ELSE LET j == summaries[k]
             at == {n \in 1..Len(found) : found[n].id = j.id}
         IN PutJobs(IF at = {} THEN Append(found, j)
                    ELSE [n \in 1..Len(found) |-> IF n \in at THEN j ELSE found[n]],
                    summaries, k + 1)

JOB_BATCH_NUM == 100

ZeroCounts == [st \in Range(AWS_BATCH_JOB_STATES) |-> 0]

NumWithStatus(job_batch, st) ==
    Cardinality({k \in 1..Len(job_batch) : job_batch[k].status = st})

\* Variant of JobBatchIds whose slice takes one id more.
JobBatchIds_overlap(job_ids, i) ==
    SubSeq(job_ids, i + 1, Min(i + JOB_BATCH_NUM + 1, Len(job_ids)))

\* self.job_ids[i:i + JOB_BATCH_NUM]
JobBatchIds(job_ids, i) ==
    SubSeq(job_ids, i + 1, Min(i + JOB_BATCH_NUM, Len(job_ids)))

\* The arguments of the describe_jobs calls of the loop
\* 'for i in range(0, len(self.job_ids), JOB_BATCH_NUM)', in call order.
RECURSIVE DescribeCalls(_, _)
DescribeCalls(job_ids, i) ==
    IF i >= Len(job_ids) THEN <<>>
    ELSE <<JobBatchIds(job_ids, i)>> \o DescribeCalls(job_ids, i + JOB_BATCH_NUM)

\* _check_status: describe_jobs in batches of JOB_BATCH_NUM ids, counting
\* the described jobs per AWS Batch state.
RECURSIVE CountBatches(_, _, _)
CountBatches(job_ids, i, counts) ==
    IF i >= Len(job_ids) THEN counts
    ELSE LET job_batch == describe_jobs(JobBatchIds(job_ids, i))
         IN CountBatches(job_ids, i + JOB_BATCH_NUM,
                [st \in Range(AWS_BATCH_JOB_STATES) |->
                    counts[st] + NumWithStatus(job_batch, st)])

\* Variant of StatusOfCounts that takes a SUBMITTED job for a succeeded one.
StatusOfCounts_submitted_done(counts) ==
    [pending |-> counts["PENDING"] + counts["RUNNABLE"] + counts["STARTING"],
     running |-> counts["RUNNING"],
     succeeded |-> counts["SUCCEEDED"] + counts["SUBMITTED"],
     failed |-> counts["FAILED"]]

\* Variant of StatusOfCounts that leaves STARTING jobs out of pending.
StatusOfCounts_no_starting(counts) ==
    [pending |-> counts["SUBMITTED"] + counts["PENDING"] + counts["RUNNABLE"],
     running |-> counts["RUNNING"],
     succeeded |-> counts["SUCCEEDED"],
     failed |-> counts["FAILED"]]

\* _check_status: the numbers for the ElasticBLAST job states.
StatusOfCounts(counts) ==
    [pending |-> counts["SUBMITTED"] + counts["PENDING"] + counts["RUNNABLE"]
                 + counts["STARTING"],
     running |-> counts["RUNNING"],
     succeeded |-> counts["SUCCEEDED"],
     failed |-> counts["FAILED"]]

pending_set == {"SUBMITTED", "PENDING", "RUNNABLE", "STARTING"}

\* _check_status_extended: the bucket a listed job is counted in.
Lower(st) ==
    CASE st = "RUNNING" -> "running"
      [] st = "SUCCEEDED" -> "succeeded"
      [] st = "FAILED" -> "failed"
      [] OTHER -> "other"

\* Variant of ExtendedBucket without the pending set.
ExtendedBucket_no_pending_set(job) == Lower(job.status)

ExtendedBucket(job) == IF job.status \in pending_set THEN "pending" ELSE Lower(job.status)

\* _check_status_extended: counts[status] += 1 for every job found; a key
\* that was never counted reads as 0.
ExtendedCounts(found) ==
    LET n(bucket) == Cardinality({k \in 1..Len(found) : ExtendedBucket(found[k]) = bucket})
    IN [pending |-> n("pending"), running |-> n("running"),
        succeeded |-> n("succeeded"), failed |-> n("failed")]

\* The entry of _check_status for a caller ("" for a call of the interface,
\* otherwise the place in wait_until_done the answer returns to).
CheckEntry(o, caller, extended) ==
    LET loc == [o.loc EXCEPT !.caller = caller, !.extended = extended,
                             !.scan = 0, !.ids = <<>>]
    IN IF extended
         THEN [o EXCEPT !.pc = "extended", !.loc = loc, !.source = "queue"]
       ELSE IF o.job_ids = <<>>
         THEN [o EXCEPT !.pc = "load", !.loc = loc, !.source = "none"]
       ELSE [o EXCEPT !.pc = "describe", !.loc = loc, !.source = "memory"]

\* check_status returns its answer.
CheckReturn(o, status) ==
    IF o.loc.caller = ""
      THEN [o EXCEPT !.pc = "ready", !.status = status, !.loc = NoLocals,
                     !.last = IF o.loc.extended THEN "check_extended" ELSE "check"]
      ELSE [o EXCEPT !.pc = o.loc.caller, !.status = status]

\* Variant of CheckStatusExcept without the except clause.
CheckStatusExcept_none(e) == e

\* check_status: "except ParamValidationError: raise UserReportError(
\* CLUSTER_ERROR, ...)"; any other exception passes.
CheckStatusExcept(e) == IF e = "ParamValidationError" THEN "CLUSTER_ERROR" ELSE e

\* check_status: the message of that error, f"Cluster {self.stack_name} is
\* not valid or not created yet" (without the name in the older module).
NotValidMessage(cfg) ==
    IF cfg.module = "elastic_blast"
      THEN <<Tok("text", "Cluster "), Tok("name", cfg.name),
             Tok("text", " is not valid or not created yet")>>
      ELSE <<Tok("text", "Cluster"), Tok("text", " is not valid or not created yet")>>

\* check_status raises; the exception leaves wait_until_done too.
CheckRaise(o, code) ==
    [o EXCEPT !.pc = "ready", !.err = code, !.loc = NoLocals,
              !.last = IF o.loc.caller # "" THEN "wait"
                       ELSE IF o.loc.extended THEN "check_extended" ELSE "check"]

\* batch.list_jobs(jobQueue=None) inside check_status: botocore raises
\* ParamValidationError before any request is sent.
ListJobsWithoutQueue(o) ==
    LET e == CheckStatusExcept("ParamValidationError") IN
    [CheckRaise(o, e) EXCEPT
        !.message = IF e = "CLUSTER_ERROR" THEN NotValidMessage(o.cfg) ELSE <<>>]

\* Variant of ChecksBackend that asks the backend in dry-run too.
ChecksBackend_always(o) == TRUE

\* get_job_ids: the ids of the jobs the listing of a queue finds, state
\* after state.
RECURSIVE ListIds(_, _, _)
ListIds(jobQueue, k, ids) ==
    IF k > Len(AWS_BATCH_JOB_STATES) THEN ids
    ELSE ListIds(jobQueue, k + 1,
            AddIds(ids, ListAllPages(jobQueue, AWS_BATCH_JOB_STATES[k], 0), 1))

get_job_ids_of(jobQueue) == ListIds(jobQueue, 1, <<>>)

\* _check_status: "if self.dry_run: return {}" comes before any backend call.
ChecksBackend(o) == ~o.cfg.dry_run

\* check_status(extended): in dry-run the counts are empty.
check_start(p, extended) ==
    LET o == [proc[p] EXCEPT !.err = "none", !.fault = "none", !.message = <<>>, !.loc = NoLocals] IN
    /\ proc[p].pc = "ready"
    /\ extended => proc[p].cfg.module = "elastic_blast"
    /\ proc' = [proc EXCEPT ![p] =
          IF ~ChecksBackend(o)
            THEN CheckReturn([o EXCEPT !.loc.extended = extended, !.source = "none"],
                             NoStatus)
            ELSE CheckEntry(o, "", extended)]
    /\ UNCHANGED <<stacks, jobs, s3>>

\* bucket.download_file: the object arrives ("none"), or the key holds no
\* object (a ClientError with code 404), or the call fails otherwise.
DownloadAnswers(blob) == (IF blob = NoBlob THEN {"404"} ELSE {"none"}) \cup ErrorCodes

\* Variant of TriggersFallback that lists the queue after any ClientError.
TriggersFallback_any(code) == TRUE

\* _load_job_ids_from_aws: "if err.response['Error']['Code'] == '404'".
TriggersFallback(code) == code = "404"

\* _load_job_ids_from_aws: the download of the ledger.  The object is there
\* and is parsed, or the answer is 404 and the ids are listed from the job
\* queue, or another ClientError is raised again.
check_load(p) ==
    LET o == proc[p]
        blob == s3[o.cfg.results].job_ids
    IN
    /\ o.pc = "load"
    /\ \E code \in DownloadAnswers(blob) :
          proc' = [proc EXCEPT ![p] =
                IF code = "none"
                  THEN IF JsonLoads(blob) = JsonError
                         THEN CheckRaise(o, "JSONDecodeError")
                         ELSE [o EXCEPT !.job_ids = JsonLoads(blob), !.source = "ledger",
                                        !.pc = "describe"]
                ELSE IF TriggersFallback(code)
                  THEN [o EXCEPT !.pc = "scan", !.loc.scan = 1, !.source = "listing"]
                ELSE CheckRaise([o EXCEPT !.fault = code], handle_aws_error(code))]
    /\ UNCHANGED <<stacks, jobs, s3>>

\* get_job_ids: the listing of the job queue for one job state.  Without a
\* job queue name botocore raises ParamValidationError, which check_status
\* reports as CLUSTER_ERROR.
check_scan(p) ==
    LET o == proc[p]
        st == AWS_BATCH_JOB_STATES[o.loc.scan]
        ids == AddIds(o.loc.ids, ListAllPages(o.job_queue_name, st, 0), 1)
    IN
    /\ o.pc = "scan"
    /\ proc' = [proc EXCEPT ![p] =
          IF o.job_queue_name = 0 THEN ListJobsWithoutQueue(o)
          ELSE IF o.loc.scan < Len(AWS_BATCH_JOB_STATES)
            THEN [o EXCEPT !.loc.ids = ids, !.loc.scan = o.loc.scan + 1]
          ELSE [o EXCEPT !.job_ids = ids, !.loc.ids = <<>>, !.loc.scan = 0,
                         !.pc = "upload"]]
    /\ UNCHANGED <<stacks, jobs, s3>>

\* _load_job_ids_from_aws: the listed ids are saved in the ledger.
check_upload(p) ==
    LET o == proc[p] IN
    /\ o.pc = "upload"
    /\ s3' = [s3 EXCEPT ![o.cfg.results] = upload_job_ids(@, o.job_ids, "check_status")]
    /\ proc' = [proc EXCEPT ![p].pc = "describe"]
    /\ UNCHANGED <<stacks, jobs>>

\* _check_status: the describe_jobs calls and the counts they give; a
\* failing call raises a ClientError that handle_aws_error reports.
check_describe(p) ==
    LET o == proc[p] IN
    /\ o.pc = "describe"
    /\ \/ proc' = [proc EXCEPT ![p] =
             CheckReturn(o, StatusOfCounts(CountBatches(o.job_ids, 0, ZeroCounts)))]
       \/ /\ o.job_ids # <<>>
          /\ \E code \in ErrorCodes :
                proc' = [proc EXCEPT ![p] =
                    CheckRaise([o EXCEPT !.fault = code], handle_aws_error(code))]
    /\ UNCHANGED <<stacks, jobs, s3>>

\* _check_status_extended: the loop over AWS_BATCH_JOB_STATES, the jobs
\* listed for state number k and the states after it put into the dict.
RECURSIVE ListQueue(_, _, _)
ListQueue(jobQueue, k, found) ==
    IF k > Len(AWS_BATCH_JOB_STATES) THEN found
    ELSE ListQueue(jobQueue, k + 1,
            PutJobs(found, ListAllPages(jobQueue, AWS_BATCH_JOB_STATES[k], 0), 1))

\* _check_status_extended: the listing of the job queue and the counts of
\* the jobs found.  Without a job queue name botocore raises
\* ParamValidationError, which check_status reports as CLUSTER_ERROR.
check_extended(p) ==
    LET o == proc[p]
        found == ListQueue(o.job_queue_name, 1, <<>>)
    IN
    /\ o.pc = "extended"
    /\ proc' = [proc EXCEPT ![p] =
          IF o.job_queue_name = 0 THEN ListJobsWithoutQueue(o)
          ELSE CheckReturn(o, ExtendedCounts(found))]
    /\ UNCHANGED <<stacks, jobs, s3>>

(***************************************************************************)
(* The live listing, one list_jobs call at a time.                         *)
(***************************************************************************)
\* Variant of ScanStates that lists the states last to first.
ScanStates_reversed ==
    [k \in 1..Len(AWS_BATCH_JOB_STATES) |->
        AWS_BATCH_JOB_STATES[Len(AWS_BATCH_JOB_STATES) + 1 - k]]

\* get_job_ids and _check_status_extended: "for status in
\* AWS_BATCH_JOB_STATES".
ScanStates == AWS_BATCH_JOB_STATES

\* get_job_ids: one list_jobs call of the loop, the first of a state or the
\* one a nextToken asks for, and the ids of its page put into the dict.
scan_list(p) ==
    LET o == proc[p]
        batch_of_jobs == list_jobs(o.job_queue_name, ScanStates[o.loc.scan], o.loc.token)
        ids == AddIds(o.loc.ids, batch_of_jobs.jobSummaryList, 1)
    IN
    /\ o.pc = "scan"
    /\ proc' = [proc EXCEPT ![p] =
          IF o.job_queue_name = 0 THEN ListJobsWithoutQueue(o)
          ELSE IF batch_of_jobs.nextToken # 0
            THEN [o EXCEPT !.loc.ids = ids, !.loc.token = batch_of_jobs.nextToken]
          ELSE IF o.loc.scan < Len(ScanStates)
            THEN [o EXCEPT !.loc.ids = ids, !.loc.token = 0, !.loc.scan = o.loc.scan + 1]
          ELSE [o EXCEPT !.job_ids = ids, !.loc.ids = <<>>, !.loc.token = 0,
                         !.loc.scan = 0, !.pc = "upload"]]
    /\ UNCHANGED <<stacks, jobs, s3>>

\* _check_status_extended: one list_jobs call of the loop and the summaries
\* of its page put into the dict; after the last call the jobs of the dict
\* are counted.
extended_list(p) ==
    LET o == proc[p]
        k == IF o.loc.scan = 0 THEN 1 ELSE o.loc.scan
        batch_of_jobs == list_jobs(o.job_queue_name, ScanStates[k], o.loc.token)
        found == PutJobs(o.loc.found, batch_of_jobs.jobSummaryList, 1)
    IN
    /\ o.pc = "extended"
    /\ proc' = [proc EXCEPT ![p] =
          IF o.job_queue_name = 0 THEN ListJobsWithoutQueue(o)
          ELSE IF batch_of_jobs.nextToken # 0
            THEN [o EXCEPT !.loc.found = found, !.loc.scan = k,
                           !.loc.token = batch_of_jobs.nextToken]
          ELSE IF k < Len(ScanStates)
            THEN [o EXCEPT !.loc.found = found, !.loc.scan = k + 1, !.loc.token = 0]
          ELSE CheckReturn(o, ExtendedCounts(found))]
    /\ UNCHANGED <<stacks, jobs, s3>>

(***************************************************************************)
(* wait_until_done                                                         *)
(***************************************************************************)
\* wait_until_done: returns at once in dry-run, otherwise asks check_status
\* for the first answer.
wait_start(p) ==
    LET o == [proc[p] EXCEPT !.err = "none", !.fault = "none", !.message = <<>>, !.loc = NoLocals] IN
    /\ proc[p].pc = "ready"
    /\ proc' = [proc EXCEPT ![p] =
          IF o.cfg.dry_run THEN [o EXCEPT !.last = "wait"]
          ELSE CheckEntry(o, "wait_first", FALSE)]
    /\ UNCHANGED <<stacks, jobs, s3>>

Sum(status) == status.pending + status.running + status.succeeded + status.failed

\* wait_until_done: "njobs = sum(status.values())".  check_status of
\* elastic_blast/aws.py answers a tuple, which has no attribute values;
\* check_status of elb/aws.py answers the dictionary of counts.
wait_first(p) ==
    LET o == proc[p] IN
    /\ o.pc = "wait_first"
    /\ proc' = [proc EXCEPT ![p] =
          IF o.cfg.module = "elastic_blast"
            THEN [o EXCEPT !.pc = "ready", !.err = "AttributeError", !.last = "wait",
                           !.loc = NoLocals]
            ELSE [o EXCEPT !.pc = "wait_loop", !.loc.njobs = Sum(o.status),
                           !.loc.ndone = 0]]
    /\ UNCHANGED <<stacks, jobs, s3>>

\* Variant of Ndone that counts running jobs as done.
Ndone_with_running(status) == status.succeeded + status.failed + status.running

\* wait_until_done: "ndone = status['succeeded'] + status['failed']"
Ndone(status) == status.succeeded + status.failed

\* Variant of wait_loop that takes the total again from every answer.
wait_loop_retotal(p) ==
    LET o == proc[p] IN
    /\ o.pc = "wait_loop"
    /\ proc' = [proc EXCEPT ![p] =
          IF o.loc.ndone = Sum(o.status)
            THEN [o EXCEPT !.pc = "ready", !.last = "wait", !.loc = NoLocals]
            ELSE CheckEntry([o EXCEPT !.loc.ndone = Ndone(o.status),
                                      !.loc.njobs = Sum(o.status)], "wait_loop", FALSE)]
    /\ UNCHANGED <<stacks, jobs, s3>>

\* wait_until_done: one turn of the loop: done when ndone equals njobs,
\* otherwise ndone is taken from the last answer and, after the sleep,
\* check_status is asked again.
wait_loop(p) ==
    LET o == proc[p] IN
    /\ o.pc = "wait_loop"
    /\ proc' = [proc EXCEPT ![p] =
          IF o.loc.ndone = o.loc.njobs
            THEN [o EXCEPT !.pc = "ready", !.last = "wait", !.loc = NoLocals]
            ELSE CheckEntry([o EXCEPT !.loc.ndone = Ndone(o.status)], "wait_loop", FALSE)]
    /\ UNCHANGED <<stacks, jobs, s3>>

(***************************************************************************)
(* Jobs of one search on a cluster that exists.                            *)
(***************************************************************************)
\* The stack of the cluster, as a completed create leaves it.
ClusterStack ==
    [name |-> DefaultClusterName(CloudURI(ResultsR1)), owner |-> Owner,
     token |-> compute_md5(CloudURI(ResultsR1)), results |-> CloudURI(ResultsR1),
     status |-> "CREATE_COMPLETE", outputs |-> AllOutputs, events |-> <<>>]

\* An object attached to the cluster stack, with its job ids.
AttachedObject(cfg, job_ids) ==
    [NoObject EXCEPT !.pc = "ready", !.cfg = cfg, !.last = "init",
                     !.cf_stack = [name |-> ClusterStack.name, status |-> ClusterStack.status,
                                   outputs |-> ClusterStack.outputs, id |-> 1],
                     !.job_queue_name = 1, !.job_definition_name = 1,
                     !.job_ids = job_ids]

\* The object whose constructor created the cluster stack, as the
\* constructor returns it.
CreatedObject(cfg) ==
    [AttachedObject(cfg, <<>>) EXCEPT !.create = TRUE, !.initialized = FALSE,
                                      !.requests = 1]

JobProcs == {"p1"}

JobConfigs == {ElasticBlastConfig(ResultsR1, "", FALSE, "elastic_blast")}

\* A search of one of the configurations has created its cluster: the
\* process of the search holds the object that did, and no job is submitted.
InitSearch(configs) ==
    /\ stacks = <<ClusterStack>>
    /\ jobs = <<>>
    /\ s3 = [r \in S3Locations |-> NoObjects]
    /\ \E cfg \in configs :
          proc = [p \in Procs |-> IF p \in JobProcs THEN CreatedObject(cfg) ELSE NoObject]
    /\ ncalls = 0

InitJobs == InitSearch(JobConfigs)

NextJobs ==
    \/ \E p \in JobProcs, cfg \in JobConfigs : Construct(p, cfg, FALSE) /\ Step
    \/ \E p \in JobProcs : init_lookup(p) /\ Step
    \/ \E p \in JobProcs : init_outputs(p) /\ Step
    \/ \E p \in JobProcs, n \in 1..MaxUnits : submit_start(p, n) /\ Step
    \/ \E p \in JobProcs : submit_job(p) /\ Step
    \/ \E p \in JobProcs : submit_upload(p) /\ Step
    \/ \E p \in JobProcs, extended \in BOOLEAN : check_start(p, extended) /\ Step
    \/ \E p \in JobProcs : check_load(p) /\ Step
    \/ \E p \in JobProcs : check_scan(p) /\ Step
    \/ \E p \in JobProcs : check_upload(p) /\ Step
    \/ \E p \in JobProcs : check_describe(p) /\ Step
    \/ \E p \in JobProcs : check_extended(p) /\ Step
    \/ \E k \in 1..MaxJobs : job_progress(k) /\ Step

SpecJobs == InitJobs /\ [][NextJobs]_vars

(***************************************************************************)
(* Waiting for the jobs of a search, in both modules.                      *)
(***************************************************************************)
WaitConfigs ==
    {ElasticBlastConfig(ResultsR1, "", FALSE, m) : m \in {"elastic_blast", "elb"}}

\* The steps inside wait_until_done and the check_status calls it makes.
WaitSteps(p) ==
    \/ check_load(p) /\ Step
    \/ check_scan(p) /\ Step
    \/ check_upload(p) /\ Step
    \/ check_describe(p) /\ Step
    \/ wait_first(p) /\ Step
    \/ wait_loop(p) /\ Step

\* The steps inside the constructor and inside submit.
SetupSteps(p) ==
    \/ init_lookup(p) /\ Step
    \/ init_outputs(p) /\ Step
    \/ submit_job(p) /\ Step
    \/ submit_upload(p) /\ Step

BatchSteps == \E k \in 1..MaxJobs : job_progress(k) /\ Step

NextWait ==
    \/ \E p \in JobProcs, cfg \in WaitConfigs : Construct(p, cfg, FALSE) /\ Step
    \/ \E p \in JobProcs, n \in 1..MaxUnits : submit_start(p, n) /\ Step
    \/ \E p \in JobProcs : wait_start(p) /\ Step
    \/ \E p \in JobProcs : SetupSteps(p)
    \/ \E p \in JobProcs : WaitSteps(p)
    \/ BatchSteps

InitWait == InitSearch(WaitConfigs)

SpecWait == InitWait /\ [][NextWait]_vars

\* A process that is inside a call goes on to the end of the call, and AWS
\* Batch brings every job to an end; nothing obliges a caller to make a call.
FairWait ==
    /\ \A p \in JobProcs : WF_vars(SetupSteps(p)) /\ WF_vars(WaitSteps(p))
    /\ WF_vars(BatchSteps)

SpecWaitFair == SpecWait /\ FairWait

(***************************************************************************)
(* Dry-run objects next to a search that has run.                          *)
(***************************************************************************)
\* The job and the ledger that a search of one query batch leaves.
SubmittedJob ==
    [id |-> JobIdPool[1], queue |-> 1, status |-> "SUBMITTED", index |-> 0,
     name |-> JobName(OwnerName, Blastn, sanitize_aws_batch_job_name(PdbNt), 0),
     parameters |-> [split_part |-> IntStr(0),
                     num_parts |-> IntStr(ELB_UNKNOWN_NUMBER_OF_QUERY_SPLITS)]]

InitDry ==
    /\ stacks = <<ClusterStack>>
    /\ jobs = <<SubmittedJob>>
    /\ s3 = [r \in S3Locations |->
                IF r = CloudURI(ResultsR1)
                  THEN upload_job_ids(NoObjects, <<SubmittedJob.id>>, "submit")
                  ELSE NoObjects]
    /\ proc = [p \in Procs |-> NoObject]
    /\ ncalls = 0

DryConfigs ==
    {ElasticBlastConfig(ResultsR1, "", TRUE, m) : m \in {"elastic_blast", "elb"}}

NextDry ==
    \/ \E p \in Procs, cfg \in DryConfigs, create \in BOOLEAN :
          Construct(p, cfg, create) /\ Step
    \/ \E p \in Procs : init_lookup(p) /\ Step
    \/ \E p \in Procs : init_outputs(p) /\ Step
    \/ \E p \in Procs, n \in 1..MaxUnits : submit_start(p, n) /\ Step
    \/ \E p \in Procs, n \in QueryLengths : upload_query_length(p, n) /\ Step
    \/ \E p \in Procs, extended \in BOOLEAN : check_start(p, extended) /\ Step
    \/ \E p \in Procs : wait_start(p) /\ Step
    \/ \E p \in Procs : delete_stack(p) /\ Step
    \/ \E k \in 1..MaxJobs : job_progress(k) /\ Step

SpecDry == InitDry /\ [][NextDry]_vars

(***************************************************************************)
(* The ledger written from one object and loaded by another.               *)
(***************************************************************************)
\* The lists of job ids an object may hold when upload_job_ids is called.
LedgerIds == {JobIdPool[k] : k \in 1..(MaxJobs + 1)}

LedgerInputs == UNION {[1..n -> LedgerIds] : n \in 0..MaxJobs}

Writer == "p1"
Reader == "p2"

InitLedger ==
    /\ stacks = <<ClusterStack>>
    /\ jobs = <<>>
    /\ s3 = [r \in S3Locations |-> NoObjects]
    /\ \E X \in LedgerInputs, cfg \in JobConfigs :
          proc = [p \in Procs |-> AttachedObject(cfg, IF p = Writer THEN X ELSE <<>>)]
    /\ ncalls = 0

\* upload_job_ids called on an object: the ledger is written from job_ids.
persist_job_ids(p) ==
    LET o == proc[p] IN
    /\ o.pc = "ready"
    /\ s3' = [s3 EXCEPT ![o.cfg.results] = upload_job_ids(@, o.job_ids, "upload_job_ids")]
    /\ proc' = [proc EXCEPT ![p].last = "upload_job_ids", ![p].err = "none",
                            ![p].fault = "none", ![p].message = <<>>]
    /\ UNCHANGED <<stacks, jobs>>

NextLedger ==
    \/ persist_job_ids(Writer) /\ Step
    \/ check_start(Reader, FALSE) /\ Step
    \/ check_load(Reader) /\ Step
    \/ check_scan(Reader) /\ Step
    \/ check_upload(Reader) /\ Step
    \/ check_describe(Reader) /\ Step

SpecLedger == InitLedger /\ [][NextLedger]_vars

(***************************************************************************)
(* One search from attach to delete.                                       *)
(***************************************************************************)
\* The search of the cluster stack, a run on the same results location
\* under another cluster name (for which there is no stack), and a dry run.
RunConfigs ==
    {ElasticBlastConfig(ResultsR1, "", FALSE, "elastic_blast"),
     ElasticBlastConfig(ResultsR1, "custom", FALSE, "elastic_blast"),
     ElasticBlastConfig(ResultsR1, "", TRUE, "elastic_blast")}

NextRun ==
    \/ \E p \in JobProcs, cfg \in RunConfigs : Construct(p, cfg, FALSE) /\ Step
    \/ \E p \in JobProcs : init_lookup(p) /\ Step
    \/ \E p \in JobProcs : init_outputs(p) /\ Step
    \/ \E p \in JobProcs, n \in 1..MaxUnits : submit_start(p, n) /\ Step
    \/ \E p \in JobProcs : submit_job(p) /\ Step
    \/ \E p \in JobProcs : submit_upload(p) /\ Step
    \/ \E p \in JobProcs, n \in QueryLengths : upload_query_length(p, n) /\ Step
    \/ \E p \in JobProcs : delete_stack(p) /\ Step
    \/ \E p \in JobProcs : delete_data(p) /\ Step
    \/ \E p \in JobProcs : delete_wait(p) /\ Step
    \/ \E p \in JobProcs : delete_waiter_error(p) /\ Step
    \/ \E k \in 1..MaxStacks : stack_progress(k) /\ Step

SpecRun == InitJobs /\ [][NextRun]_vars

(***************************************************************************)
(* A search from the creation of its cluster, next to a process that       *)
(* attaches to the cluster and deletes it.                                 *)
(***************************************************************************)
Creator == "p1"
Attacher == "p2"

NextSearch ==
    \/ \E cfg \in JobConfigs : Construct(Creator, cfg, TRUE) /\ Call
    \/ \E cfg \in JobConfigs : Construct(Attacher, cfg, FALSE) /\ Call
    \/ \E p \in Procs : Ensure(p) /\ Step
    \/ \E p \in Procs, n \in 1..MaxUnits : submit_start(p, n) /\ Step
    \/ \E p \in Procs : submit_job(p) /\ Step
    \/ \E p \in Procs : submit_upload(p) /\ Step
    \/ Delete(Attacher)
    \/ \E k \in 1..MaxStacks : stack_progress(k) /\ Step

SpecSearch == Init /\ [][NextSearch]_vars

(***************************************************************************)
(* Searches of several programs and databases.                             *)
(***************************************************************************)
\* "blastn" and "tblastn".
Programs == {Blastn, <<Run("w", 7)>>}

\* Basenames of databases: "pdb_nt", "nt.v5", " swissprot-v2 ", and names of
\* 90, 128 and 140 letters.
DbNames ==
    {PdbNt,
     <<Run("w", 2), Run(".", 1), Run("w", 2)>>,
     <<Run(" ", 1), Run("w", 9), Run("-", 1), Run("w", 2), Run(" ", 1)>>,
     <<Run("w", 90)>>, <<Run("w", 128)>>, <<Run("w", 140)>>}

NameConfigs ==
    {[cfg EXCEPT !.program = prog, !.db = db] :
        cfg \in JobConfigs, prog \in Programs, db \in DbNames}

NextNames ==
    \/ \E p \in JobProcs, n \in 1..MaxUnits : submit_start(p, n) /\ Step
    \/ \E p \in JobProcs : submit_job(p) /\ Step
    \/ \E p \in JobProcs : submit_upload(p) /\ Step

SpecNames == InitSearch(NameConfigs) /\ [][NextNames]_vars

(***************************************************************************)
(* The first submit of a search, of few or of many query batches.          *)
(***************************************************************************)
SplitUnits == (1..MaxUnits) \cup {NoSearchJobs + 1}

NextSplit ==
    \/ \E p \in JobProcs, n \in SplitUnits, cloud_query_split \in BOOLEAN,
          no_search \in BOOLEAN :
          /\ proc[p].last = "init"
          /\ submit_call(p, n, cloud_query_split, no_search, NoSearchJobs + 1)
          /\ Step
    \/ \E p \in JobProcs : submit_job(p) /\ Step
    \/ \E p \in JobProcs : submit_upload(p) /\ Step

SpecSplit == InitJobs /\ [][NextSplit]_vars

(***************************************************************************)
(* Polling the status of a search whose jobs are all submitted.            *)
(***************************************************************************)
\* The jobs of a search of MaxJobs query batches, as submit leaves them.
PolledJobs ==
    [k \in 1..MaxJobs |->
        [id |-> JobIdPool[k], queue |-> 1, status |-> "SUBMITTED", index |-> k - 1,
         name |-> JobName(OwnerName, Blastn, sanitize_aws_batch_job_name(PdbNt), k - 1),
         parameters |-> [split_part |-> IntStr(k - 1),
                         num_parts |-> IntStr(ELB_UNKNOWN_NUMBER_OF_QUERY_SPLITS)]]]

PolledIds == [k \in 1..MaxJobs |-> JobIdPool[k]]

\* The search has submitted its jobs and written the ledger; a second
\* process has no object yet.
InitPoll ==
    /\ stacks = <<ClusterStack>>
    /\ jobs = PolledJobs
    /\ s3 = [r \in S3Locations |->
                IF r = CloudURI(ResultsR1)
                  THEN upload_job_ids(NoObjects, PolledIds, "submit")
                  ELSE NoObjects]
    /\ \E cfg \in JobConfigs :
          proc = [p \in Procs |->
                     IF p = Creator
                       THEN [CreatedObject(cfg) EXCEPT !.job_ids = PolledIds,
                                                       !.last = "submit"]
                       ELSE NoObject]
    /\ ncalls = 0

NextPoll ==
    \/ \E cfg \in JobConfigs : Construct(Attacher, cfg, FALSE) /\ Step
    \/ init_lookup(Attacher) /\ Step
    \/ init_outputs(Attacher) /\ Step
    \/ \E p \in Procs : check_start(p, FALSE) /\ Step
    \/ \E p \in Procs : check_load(p) /\ Step
    \/ \E p \in Procs : check_describe(p) /\ Step
    \/ \E k \in 1..MaxJobs : job_progress(k) /\ Step

SpecPoll == InitPoll /\ [][NextPoll]_vars

(***************************************************************************)
(* The status of a search of many jobs.                                    *)
(***************************************************************************)
MaxBatches == 2

\* The numbers of jobs of a search: none, one, and the numbers next to a
\* multiple of the describe batch, up to one more than MaxBatches batches.
TrackedSizes ==
    {0, 1} \cup {b * JOB_BATCH_NUM + d : b \in 1..MaxBatches, d \in {0 - 1, 0, 1}}

ManyJobs(n) ==
    [k \in 1..n |->
        [id |-> <<"job", k>>, queue |-> 1, status |-> "SUBMITTED", index |-> k - 1,
         name |-> <<>>, parameters |-> <<>>]]

ManyIds(n) == [k \in 1..n |-> <<"job", k>>]

\* The search has submitted n jobs and written the ledger; its process
\* holds the object that submitted them.
InitBatches ==
    \E n \in TrackedSizes, cfg \in JobConfigs :
        /\ stacks = <<ClusterStack>>
        /\ jobs = ManyJobs(n)
        /\ s3 = [r \in S3Locations |->
                    IF r = CloudURI(ResultsR1)
                      THEN upload_job_ids(NoObjects, ManyIds(n), "submit")
                      ELSE NoObjects]
        /\ proc = [p \in Procs |->
                     IF p = Creator
                       THEN [CreatedObject(cfg) EXCEPT !.job_ids = ManyIds(n),
                                                       !.last = "submit"]
                       ELSE NoObject]
        /\ ncalls = 0

\* The jobs whose progress is followed: the first job of the first and of
\* the second batch.
FollowedJobs == {1, JOB_BATCH_NUM + 1}

NextBatches ==
    \/ check_start(Creator, FALSE) /\ Step
    \/ check_load(Creator) /\ Step
    \/ check_describe(Creator) /\ Step
    \/ \E k \in FollowedJobs : job_progress(k) /\ Step

SpecBatches == InitBatches /\ [][NextBatches]_vars

(***************************************************************************)
(* Two runs whose configurations keep the results location as written.     *)
(***************************************************************************)
\* The results locations as configuration files spell them.
ResultsValues == {ResultsR1, ResultsR1Slash}

\* A configuration together with the results value it was built from.
WrittenConfig(value, cluster_name) ==
    LET cfg == ElasticBlastConfig(value, cluster_name, FALSE, "elastic_blast")
    IN [f \in DOMAIN cfg \cup {"value"} |-> IF f = "value" THEN value ELSE cfg[f]]

NextIdentity ==
    \/ \E p \in Procs, value \in ResultsValues, n \in {"", "custom"}, create \in BOOLEAN :
          Construct(p, WrittenConfig(value, n), create) /\ Call
    \/ \E p \in Procs : Ensure(p) /\ Step
    \/ \E k \in 1..MaxStacks : stack_progress(k) /\ Step

SpecIdentity == Init /\ [][NextIdentity]_vars

(***************************************************************************)
(* Listing the job queue while the jobs run.                               *)
(***************************************************************************)
\* The search has submitted its jobs and is about to write the ledger; a
\* second process is attached to the cluster and holds no job id.
InitListing ==
    /\ stacks = <<ClusterStack>>
    /\ jobs = PolledJobs
    /\ s3 = [r \in S3Locations |-> NoObjects]
    /\ \E cfg \in JobConfigs :
          proc = [p \in Procs |->
                     IF p = Creator
                       THEN [CreatedObject(cfg) EXCEPT !.job_ids = PolledIds,
                                                       !.pc = "submit_upload"]
                       ELSE AttachedObject(cfg, <<>>)]
    /\ ncalls = 0

\* The second process asks for the status once.
NextListing ==
    \/ submit_upload(Creator) /\ Step
    \/ \E extended \in BOOLEAN :
          proc[Attacher].last = "init" /\ check_start(Attacher, extended) /\ Step
    \/ check_load(Attacher) /\ Step
    \/ scan_list(Attacher) /\ Step
    \/ check_upload(Attacher) /\ Step
    \/ check_describe(Attacher) /\ Step
    \/ extended_list(Attacher) /\ Step
    \/ \E k \in 1..MaxJobs : job_progress(k) /\ Step

SpecListing == InitListing /\ [][NextListing]_vars

(***************************************************************************)
(* Waiting for jobs that the backend forgets after they have ended.        *)
(***************************************************************************)
\* The search, of either module, has submitted its jobs and written the
\* ledger.
InitExpire ==
    /\ stacks = <<ClusterStack>>
    /\ jobs = PolledJobs
    /\ s3 = [r \in S3Locations |->
                IF r = CloudURI(ResultsR1)
                  THEN upload_job_ids(NoObjects, PolledIds, "submit")
                  ELSE NoObjects]
    /\ \E cfg \in WaitConfigs :
          proc = [p \in Procs |->
                     IF p = Creator
                       THEN [CreatedObject(cfg) EXCEPT !.job_ids = PolledIds,
                                                       !.last = "submit"]
                       ELSE NoObject]
    /\ ncalls = 0

NextExpire ==
    \/ wait_start(Creator) /\ Call
    \/ check_describe(Creator) /\ Step
    \/ wait_first(Creator) /\ Step
    \/ wait_loop(Creator) /\ Step
    \/ \E k \in 1..MaxJobs : job_progress(k) /\ Step
    \/ \E k \in 1..MaxJobs : job_expire(k) /\ Step

SpecExpire == InitExpire /\ [][NextExpire]_vars

(***************************************************************************)
(* A status request of a second process while the search submits.          *)
(***************************************************************************)
\* The search submits once; the second process, attached to the cluster,
\* asks for the status, and may attach again with a new object.
NextRace ==
    \/ \E n \in 1..MaxUnits :
          proc[Creator].last = "init" /\ submit_start(Creator, n) /\ Step
    \/ submit_job(Creator) /\ Step
    \/ submit_upload(Creator) /\ Step
    \/ \E cfg \in JobConfigs : Construct(Attacher, cfg, FALSE) /\ Call
    \/ init_lookup(Attacher) /\ Step
    \/ init_outputs(Attacher) /\ Step
    \/ check_start(Attacher, FALSE) /\ Step
    \/ check_load(Attacher) /\ Step
    \/ check_scan(Attacher) /\ Step
    \/ check_upload(Attacher) /\ Step
    \/ check_describe(Attacher) /\ Step
    \/ \E k \in 1..MaxJobs : job_progress(k) /\ Step

SpecRace == InitJobs /\ [][NextRace]_vars

(***************************************************************************)
(* One search whose backend calls may fail.                                *)
(***************************************************************************)
\* The cluster of the search exists and stays; the caller creates or
\* attaches, submits and asks for the status.
\* What a failing call of the constructor fails with: ClientErrors of three
\* codes, or no credentials at all.
FaultCodes == ErrorCodes \cup {"ExpiredToken", "NoCredentialsError"}

\* Runs of either module under a cluster name that no stack holds.
NoStackConfigs ==
    {ElasticBlastConfig(ResultsR1, "custom", FALSE, "elastic_blast"),
     ElasticBlastConfig(ResultsR1, "custom", FALSE, "elb")}

NextFault ==
    \/ \E p \in JobProcs, cfg \in JobConfigs, create \in BOOLEAN :
          Construct(p, cfg, create) /\ Step
    \/ \E p \in JobProcs, cfg \in NoStackConfigs : Construct(p, cfg, FALSE) /\ Step
    \/ \E p \in JobProcs : init_lookup(p) /\ Step
    \/ \E p \in JobProcs, code \in FaultCodes : init_lookup_error(p, code) /\ Step
    \/ \E p \in JobProcs : init_create(p) /\ Step
    \/ \E p \in JobProcs, code \in FaultCodes : init_create_error(p, code) /\ Step
    \/ \E p \in JobProcs : init_outputs(p) /\ Step
    \/ \E p \in JobProcs, n \in 1..MaxUnits : submit_start(p, n) /\ Step
    \/ \E p \in JobProcs : submit_job(p) /\ Step
    \/ \E p \in JobProcs : submit_upload(p) /\ Step
    \/ \E p \in JobProcs, extended \in BOOLEAN : check_start(p, extended) /\ Step
    \/ \E p \in JobProcs : check_load(p) /\ Step
    \/ \E p \in JobProcs : check_scan(p) /\ Step
    \/ \E p \in JobProcs : check_upload(p) /\ Step
    \/ \E p \in JobProcs : check_describe(p) /\ Step
    \/ \E p \in JobProcs : check_extended(p) /\ Step

SpecFault == InitJobs /\ [][NextFault]_vars

(***************************************************************************)
(* Properties of the infrastructure lifecycle.                             *)
(***************************************************************************)
InitPcs == {"lookup", "create", "wait_create", "create_waiter_error", "created", "outputs"}

Active(k) == stacks[k].status # "DELETE_COMPLETE"

\* Two URIs name the same results location when they differ at most in one
\* trailing '/'.
Location(uri) ==
    IF Len(uri) > 0 /\ uri[Len(uri)] = "" THEN SubSeq(uri, 1, Len(uri) - 1) ELSE uri

Locations == {Location(ResultsR1)}

IsDefaultName(n) == n.prefix = "elasticblast"

ActiveStacksOf(owner, location) ==
    {k \in 1..Len(stacks) :
        Active(k) /\ stacks[k].owner = owner /\ Location(stacks[k].results) = location}

\* C3 as stated: at most one active stack per (owner, results-location).
C3_Original ==
    \A location \in Locations : Cardinality(ActiveStacksOf(Owner, location)) <= 1

\* C3: at most one active stack per (owner, results-location) pair among
\* the stacks that carry the default cluster name, for every interleaving of
\* ensure and delete calls of the processes.
C3_OneActiveDefaultStackPerLocation ==
    \A location \in Locations :
        Cardinality({k \in ActiveStacksOf(Owner, location) :
                        IsDefaultName(stacks[k].name)}) <= 1

\* Two processes raced: both issued a create request for the default name.
C3_Witness ==
    /\ \A p \in Procs :
          /\ proc[p].create
          /\ proc[p].requests = 1
          /\ IsDefaultName(proc[p].cfg.name)
    /\ Cardinality(ActiveStacksOf(Owner, Location(ResultsR1))) = 1

(***************************************************************************)
(* Properties of submit and of the job-id ledger.                          *)
(***************************************************************************)
Ledger(p) == s3[proc[p].cfg.results].job_ids

NoDuplicates(ids) == Cardinality(Range(ids)) = Len(ids)

\* Call op of process p has returned without an exception.
Returned(p, op) ==
    proc[p].pc = "ready" /\ proc[p].last = op /\ proc[p].err = "none"

\* C4: when submit returns after the backend accepted all N units, the
\* ledger holds exactly the N job ids the backend returned, in the order of
\* the unit indexes, and decodes to the in-memory job-id list of the run.
C4_LedgerHoldsSubmittedIds ==
    [][\A p \in Procs :
          (proc[p].pc = "submit_upload" /\ proc'[p].pc = "ready") =>
              LET ids == proc'[p].job_ids IN
              /\ Len(ids) = proc[p].loc.units
              /\ s3'[proc[p].cfg.results].job_ids # NoBlob
              /\ JsonLoads(s3'[proc[p].cfg.results].job_ids) = ids
              /\ NoDuplicates(ids)
              /\ \A i \in 1..Len(ids) :
                    /\ JobById(ids[i]) # 0
                    /\ jobs[JobById(ids[i])].index = i - 1
                    /\ jobs[JobById(ids[i])].queue = proc[p].job_queue_name]_vars

C4_Witness ==
    \E p \in Procs :
        /\ Returned(p, "submit")
        /\ Len(proc[p].job_ids) = MaxUnits
        /\ Ledger(p) = JsonDumps(proc[p].job_ids)
        /\ \A i \in 1..MaxUnits : jobs[JobById(proc[p].job_ids[i])].index = i - 1

SubmitInterrupted(p) ==
    /\ proc[p].pc = "ready"
    /\ proc[p].last = "submit"
    /\ proc[p].err \in {"CLUSTER_ERROR", "PERMISSIONS_ERROR"}

\* C5: when a backend error on submit_job interrupts submit after K >= 1
\* units were accepted, the in-memory job-id list holds the K job ids and
\* the ledger decodes to the same K ids.
C5_Original ==
    \A p \in Procs :
        (SubmitInterrupted(p) /\ Len(proc[p].job_ids) >= 1) =>
            /\ Ledger(p) # NoBlob
            /\ JsonLoads(Ledger(p)) = proc[p].job_ids

(***************************************************************************)
(* Properties of check_status.                                             *)
(***************************************************************************)
\* The ids of the jobs in the job queue of process p.
QueueIds(p) == {jobs[k].id : k \in {n \in 1..Len(jobs) : jobs[n].queue = proc[p].job_queue_name}}

\* Process p takes a step that lists the job queue, for a check_status
\* call with the given value of extended.
Lists(p, extended) ==
    /\ proc[p].pc = (IF extended THEN "extended" ELSE "scan")
    /\ proc'[p] # proc[p]

\* A check_status call of p that found no job ids in memory and no ledger
\* returns without an exception.
FallbackReturns(p, extended) ==
    /\ proc'[p].pc = "ready" /\ proc'[p].err = "none"
    /\ IF extended
         THEN proc[p].pc = "extended" /\ proc[p].job_ids = <<>> /\ Ledger(p) = NoBlob
         ELSE proc[p].pc = "describe" /\ proc[p].source = "listing"

\* The ledger holds what the fallback of a check_status call has written.
RecoveredLedger(p) == Ledger(p) # NoBlob /\ s3[proc[p].cfg.results].by = "check_status"

\* check_status(extended) with no job ids in memory and no ledger lists the
\* job queue, leaves the ids in the ledger, and no call lists the queue
\* while the ledger holds the ids a fallback has recovered.
FallbackWritesLedger(extended) ==
    \A p \in Procs :
        /\ FallbackReturns(p, extended) => s3'[proc[p].cfg.results].job_ids # NoBlob
        /\ Lists(p, extended) => ~RecoveredLedger(p)

\* C6 as stated: the fallback of any check_status call, extended or not,
\* writes the ledger, and no later check_status call lists the job queue.
C6_Original == [][FallbackWritesLedger(TRUE) /\ FallbackWritesLedger(FALSE)]_vars

\* C6: a non-extended check_status with no job ids in memory and no ledger
\* takes the job ids from the listing of the job queue: every job of the
\* queue once, whatever its state.  It writes these ids to the ledger, and
\* a non-extended check_status lists the queue only when it finds no ledger.
C6_FallbackRecoversLedger ==
    [][/\ FallbackWritesLedger(FALSE)
       /\ \A p \in Procs :
             /\ (proc[p].pc = "scan" /\ proc'[p].pc = "upload") =>
                   /\ NoDuplicates(proc'[p].job_ids)
                   /\ Range(proc'[p].job_ids) = QueueIds(p)
             /\ (proc[p].pc = "upload" /\ proc'[p].pc = "describe") =>
                   /\ JsonLoads(s3'[proc[p].cfg.results].job_ids) = proc[p].job_ids
                   /\ proc'[p].job_ids = proc[p].job_ids]_vars

\* A call has read from the ledger the job ids that an earlier call
\* recovered from the listing of the job queue.
C6_Witness ==
    \E p \in Procs :
        /\ Returned(p, "check")
        /\ proc[p].source = "ledger"
        /\ RecoveredLedger(p)
        /\ Len(proc[p].job_ids) >= 1
        /\ Range(proc[p].job_ids) = QueueIds(p)

Buckets == {"pending", "running", "succeeded", "failed"}

\* The number of jobs a returned check_status call of p has asked about:
\* the job ids of the object, or for an extended call the jobs of the queue.
TrackedJobs(p) ==
    IF proc[p].last = "check_extended" THEN Cardinality(QueueIds(p))
    ELSE Len(proc[p].job_ids)

BucketOf(st) ==
    CASE st \in {"SUBMITTED", "PENDING", "RUNNABLE", "STARTING"} -> "pending"
      [] st = "RUNNING" -> "running"
      [] st = "SUCCEEDED" -> "succeeded"
      [] st = "FAILED" -> "failed"

\* The number of the given jobs (positions in jobs) whose state falls into
\* bucket b.
InBucket(ks, b) == Cardinality({k \in ks : BucketOf(jobs[k].status) = b})

\* The jobs a check_status call of p asks about at the step that returns.
AskedJobs(p) ==
    IF proc[p].pc = "extended"
      THEN {k \in 1..Len(jobs) : jobs[k].queue = proc[p].job_queue_name}
      ELSE {JobById(id) : id \in Range(proc[p].job_ids)}

ThreeRunnable == [ZeroCounts EXCEPT !["RUNNABLE"] = 3]

\* C8: the counts a check_status call returns are the numbers of jobs whose
\* native state, at the time the call asks, is SUBMITTED, PENDING, RUNNABLE
\* or STARTING (pending), RUNNING (running), SUCCEEDED (succeeded) and
\* FAILED (failed); three RUNNABLE jobs count as pending = 3 and nothing else.
C8_BucketsFollowTable ==
    [][/\ \A p \in Procs :
             (/\ proc[p].pc \in {"describe", "extended"}
              /\ proc'[p].pc = "ready"
              /\ proc'[p].err = "none") =>
                 \A b \in Buckets : proc'[p].status[b] = InBucket(AskedJobs(p), b)
       /\ StatusOfCounts(ThreeRunnable)
              = [pending |-> 3, running |-> 0, succeeded |-> 0, failed |-> 0]]_vars

\* All MaxJobs jobs are RUNNABLE and the answer counts them as pending.
C8_Witness ==
    \E p \in Procs :
        /\ Returned(p, "check")
        /\ Len(proc[p].job_ids) = MaxJobs
        /\ \A id \in Range(proc[p].job_ids) : jobs[JobById(id)].status = "RUNNABLE"
        /\ proc[p].status = [pending |-> MaxJobs, running |-> 0, succeeded |-> 0, failed |-> 0]

Waiting(p) == proc[p].loc.caller \in {"wait_first", "wait_loop"}

\* A backend call of the wait_until_done call of p has failed.
WaitBackendFailure(p) ==
    /\ proc[p].pc = "ready"
    /\ proc[p].last = "wait"
    /\ proc[p].err \in {"CLUSTER_ERROR", "PERMISSIONS_ERROR"}

\* C10: a wait_until_done call that is not a dry run, whose process keeps
\* running while AWS Batch brings every job to SUCCEEDED or FAILED, returns
\* without an exception unless one of its backend calls fails.
C10_Original ==
    \A p \in JobProcs :
        Waiting(p) ~> (Returned(p, "wait") \/ WaitBackendFailure(p))


(***************************************************************************)
(* Properties of dry-run.                                                  *)
(***************************************************************************)
\* A step that object p takes while its configuration asks for dry-run.
DryRunStep(p) == proc'[p] # proc[p] /\ proc'[p].cfg.dry_run

\* C11: with dry_run set, no step of ensure, submit, upload_query_length,
\* check_status, wait_until_done or delete changes the stacks, the jobs or
\* the objects of the bucket, and the job ids of the object stay empty.
C11_DryRunChangesNothing ==
    [][\A p \in Procs : DryRunStep(p) =>
          /\ UNCHANGED <<stacks, jobs, s3>>
          /\ proc'[p].job_ids = <<>>]_vars

\* One dry-run object has come back from upload_query_length and another
\* from delete, next to a stack, a job and a ledger that are still there.
C11_Witness ==
    /\ \E p, q \in Procs :
          /\ proc[p].cfg.dry_run /\ proc[p].last = "upload_query_length"
          /\ proc[q].cfg.dry_run /\ proc[q].last = "delete_noop"
    /\ ActiveStacks(ClusterStack.name) # {}
    /\ jobs # <<>>
    /\ s3[CloudURI(ResultsR1)].job_ids # NoBlob


\* The places inside check_status where the ledger is read ("load"), the
\* job queue is listed ("scan", "extended"), the ledger is written
\* ("upload") or jobs are described ("describe").
BackendPcs == {"load", "scan", "upload", "describe", "extended"}

\* C12: with dry_run set, check_status (extended or not) answers zero for
\* every bucket, and the object is never at a ledger read, a listing of the
\* job queue or a describe call.
C12_DryRunCheckStatusAsksNothing ==
    \A p \in Procs : proc[p].cfg.dry_run =>
        /\ proc[p].pc \notin BackendPcs
        /\ proc[p].last \in {"check", "check_extended"} =>
              /\ \A b \in DOMAIN NoStatus : proc[p].status[b] = 0
              /\ proc[p].source = "none"
              /\ proc[p].err = "none"

\* Dry-run objects have answered check_status, one of them extended, while
\* the ledger of the search and its job are there to be asked about.
C12_Witness ==
    /\ \E p, q \in Procs :
          /\ proc[p].cfg.dry_run /\ proc[p].pc = "ready" /\ proc[p].last = "check"
          /\ proc[q].cfg.dry_run /\ proc[q].pc = "ready" /\ proc[q].last = "check_extended"
    /\ s3[CloudURI(ResultsR1)].job_ids # NoBlob
    /\ jobs # <<>>


(***************************************************************************)
(* Properties of the ledger encoding.                                      *)
(***************************************************************************)
\* The step in which p takes its job ids from the ledger object.
LoadsLedger(p) == proc[p].pc = "load" /\ proc'[p].source = "ledger"

\* C13: the ledger read back after upload_job_ids wrote a non-empty list X
\* gives X, the same elements in the same order (and the encoding of X
\* decodes to X).
C13_LedgerRoundTrip ==
    [][\A p \in Procs :
          /\ LoadsLedger(p)
          /\ proc[Writer].last = "upload_job_ids"
          /\ s3[proc[p].cfg.results].by = "upload_job_ids"
          /\ proc[Writer].job_ids # <<>>
          => /\ proc'[p].err = "none"
             /\ proc'[p].job_ids = proc[Writer].job_ids
             /\ JsonLoads(JsonDumps(proc[Writer].job_ids)) = proc[Writer].job_ids]_vars

\* The reader holds a list of MaxJobs ids, with a repeated id or in an order
\* other than that of the pool, that it took from the ledger the writer wrote.
C13_Witness ==
    /\ proc[Reader].source = "ledger"
    /\ s3[proc[Reader].cfg.results].by = "upload_job_ids"
    /\ Len(proc[Reader].job_ids) = MaxJobs
    /\ proc[Reader].job_ids = proc[Writer].job_ids
    /\ proc[Reader].job_ids[1] = JobIdPool[2]


(***************************************************************************)
(* Properties of the ledger load.                                          *)
(***************************************************************************)
\* The step object p takes at the download of the ledger.
LedgerLoadStep(p) == proc[p].pc = "load" /\ proc'[p] # proc[p]

\* C14: at the ledger load only an absent object (not found) leads to the
\* listing of the job queue; a load that fails otherwise ends check_status
\* with the error, with no listing, no ledger write and job_ids as before.
C14_OnlyNotFoundFallsBack ==
    [][\A p \in JobProcs : LedgerLoadStep(p) =>
          /\ proc'[p].pc = "scan" => Ledger(p) = NoBlob
          /\ proc'[p].err # "none" =>
                /\ proc'[p].pc = "ready"
                /\ proc'[p].source = "none"
                /\ proc'[p].job_ids = proc[p].job_ids
                /\ UNCHANGED <<s3, jobs>>]_vars

\* check_status failed with a translated storage error at the load of a
\* ledger that exists, for a queue that holds jobs; nothing was listed.
C14_Witness ==
    \E p \in JobProcs :
        /\ proc[p].pc = "ready" /\ proc[p].last = "check"
        /\ proc[p].err \in {"PERMISSIONS_ERROR", "CLUSTER_ERROR"}
        /\ proc[p].job_ids = <<>>
        /\ proc[p].source = "none"
        /\ Ledger(p) # NoBlob
        /\ jobs # <<>>


(***************************************************************************)
(* Properties of a failed or slow stack creation.                          *)
(***************************************************************************)
\* The message has a line that gives the reason.
Mentions(message, reason) ==
    \E i \in 1..Len(message) : message[i].t = "event" /\ message[i].reason = reason

TellsToDelete(message) ==
    \E i \in 1..Len(message) :
        /\ message[i].t = "text"
        /\ message[i].v = " Please, run elastic-blast delete to remove cloudformation stack with errors"

\* The events of a stack that report a failure, cancellations apart, and
\* those that report a cancelled creation.
FailureEvents(k) ==
    {i \in 1..Len(stacks[k].events) :
        /\ stacks[k].events[i].resource_status \in {"CREATE_FAILED", "DELETE_FAILED"}
        /\ "Resource creation cancelled" \notin Range(stacks[k].events[i].resource_status_reason)}

CancelledEvents(k) ==
    {i \in 1..Len(stacks[k].events) :
        "Resource creation cancelled" \in Range(stacks[k].events[i].resource_status_reason)}

\* The wait of p for its stack has ended and the stack is there, neither
\* CREATE_IN_PROGRESS nor CREATE_COMPLETE: p is at the status read of the
\* WaiterError handler or, after it, at the listing of the events.
CreationFailed(p) ==
    /\ proc[p].pc \in {"create_waiter_error", "create_errors"}
    /\ StackByName(proc[p].cfg.name) # 0
    /\ proc[p].pc = "create_waiter_error" =>
          stacks[StackByName(proc[p].cfg.name)].status \notin {"CREATE_IN_PROGRESS", "CREATE_COMPLETE"}

\* C15: when the creation of the stack failed, ensure goes on to list the
\* events and fails with DEPENDENCY_ERROR; the message gives the reason of
\* every CREATE_FAILED or DELETE_FAILED event that is not a cancellation,
\* gives no reason of a cancelled event and tells the user to run delete.
C15_CreationFailureReportsReasons ==
    [][\A p \in Procs : CreationFailed(p) /\ proc'[p] # proc[p] =>
          LET k == StackByName(proc[p].cfg.name)
              message == proc'[p].message
          IN IF proc[p].pc = "create_waiter_error"
               THEN proc'[p].pc = "create_errors" /\ proc'[p].err = "none"
               ELSE /\ proc'[p].pc = "failed"
                    /\ proc'[p].err = "DEPENDENCY_ERROR"
                    /\ \A i \in FailureEvents(k) :
                          Mentions(message, stacks[k].events[i].resource_status_reason)
                    /\ \A i \in CancelledEvents(k) :
                          ~Mentions(message, stacks[k].events[i].resource_status_reason)
                    /\ TellsToDelete(message)]_vars

\* ensure has failed with DEPENDENCY_ERROR on a stack whose events hold two
\* failures and a cancellation; the message gives the two reasons.
C15_Witness ==
    \E p \in Procs :
        LET k == StackByName(proc[p].cfg.name) IN
        /\ proc[p].pc = "failed" /\ proc[p].err = "DEPENDENCY_ERROR"
        /\ k # 0
        /\ CancelledEvents(k) # {}
        /\ Cardinality(FailureEvents(k)) >= 2
        /\ Mentions(proc[p].message, <<"InsufficientCapacity">>)
        /\ Len(get_cloudformation_errors(stacks[k].events, 1)) = Cardinality(FailureEvents(k))


\* The stack of p is there and still being created.
StillInProgress(p) ==
    /\ StackByName(proc[p].cfg.name) # 0
    /\ stacks[StackByName(proc[p].cfg.name)].status = "CREATE_IN_PROGRESS"

\* C16: when the waiter has given up and the stack is still
\* CREATE_IN_PROGRESS, ensure fails with TIMEOUT_ERROR; and the waiter can
\* always end its wait on a stack that stays in progress.
C16_ExhaustedWaitIsTimeout ==
    [][\A p \in Procs :
          /\ proc[p].pc = "wait_create" /\ StillInProgress(p) =>
                ENABLED (init_wait(p) /\ Step)
          /\ proc[p].pc = "create_waiter_error" /\ StillInProgress(p)
                /\ proc'[p] # proc[p] =>
                /\ proc'[p].pc = "failed"
                /\ proc'[p].err = "TIMEOUT_ERROR"]_vars

\* ensure has failed with TIMEOUT_ERROR and the stack is still in progress.
C16_Witness ==
    \E p \in Procs :
        /\ proc[p].pc = "failed" /\ proc[p].err = "TIMEOUT_ERROR"
        /\ proc[p].create
        /\ StillInProgress(p)


(***************************************************************************)
(* Properties of the stack outputs.                                        *)
(***************************************************************************)
\* p is at the reading of the outputs with a handle that says
\* CREATE_COMPLETE, and the outputs lack one of the two names.
OutputsLacking(p) ==
    /\ proc[p].pc = "outputs"
    /\ ~proc[p].cfg.dry_run
    /\ proc[p].cf_stack # NoHandle
    /\ proc[p].cf_stack.status = "CREATE_COMPLETE"
    /\ ~({"JobQueueName", "JobDefinitionName"} \subseteq proc[p].cf_stack.outputs)

\* C17: when the stack is reported CREATE_COMPLETE and its outputs lack
\* JobQueueName or JobDefinitionName, ensure fails with DEPENDENCY_ERROR,
\* and no object is returned that holds a CREATE_COMPLETE handle without a
\* queue name or a job definition name.
C17_Original ==
    [][\A p \in Procs :
          /\ OutputsLacking(p) /\ proc'[p] # proc[p] =>
                proc'[p].pc = "failed" /\ proc'[p].err = "DEPENDENCY_ERROR"
          /\ proc'[p].pc = "ready" /\ proc'[p].cf_stack # NoHandle
                /\ proc'[p].cf_stack.status = "CREATE_COMPLETE" =>
                proc'[p].job_queue_name # 0 /\ proc'[p].job_definition_name # 0]_vars


(***************************************************************************)
(* Properties of delete.                                                   *)
(***************************************************************************)
\* The objects of the core below the results location of p.
RunData(p) == s3[proc[p].cfg.results]

\* The step in which delete is called on object p: it goes on to the
\* removal of the data or comes back at once.
DeleteCalled(p) ==
    /\ proc[p].pc = "ready"
    /\ \/ proc'[p].pc = "remove_data"
       \/ /\ proc'[p].pc = "ready"
          /\ proc'[p].last = "delete_noop" /\ proc[p].last # "delete_noop"

\* C18: delete on an object that holds no stack handle, or in dry-run,
\* returns at once: no stack is touched and no object of the bucket is
\* removed.
C18_DeleteWithoutHandleIsNoop ==
    [][\A p \in JobProcs :
          /\ DeleteCalled(p)
          /\ proc[p].cfg.dry_run \/ proc[p].cf_stack = NoHandle
          => /\ proc'[p].pc = "ready"
             /\ UNCHANGED <<stacks, s3>>]_vars

\* delete has returned from an object without a stack handle (not a dry
\* run) while the stack of the search is active and the results location
\* holds the ledger and the query length.
C18_Witness ==
    \E p \in JobProcs :
        /\ proc[p].pc = "ready" /\ proc[p].last = "delete_noop"
        /\ ~proc[p].cfg.dry_run /\ proc[p].cf_stack = NoHandle
        /\ ActiveStacks(ClusterStack.name) # {}
        /\ RunData(p).job_ids # NoBlob
        /\ RunData(p).query_length # NoBlob


\* The stack that the handle of p names is there.
HandleStack(p) == StackByName(proc[p].cf_stack.name)

\* C19: a delete that is not a dry run, on an object with a stack handle,
\* issues the deletion of the stack, then removes the data of the run, then
\* waits; when it returns normally the stack is deleted and the query-batch,
\* metadata and log prefixes of the results location hold no objects.
C19_Original ==
    [][\A p \in JobProcs :
          ~proc[p].cfg.dry_run /\ proc[p].cf_stack # NoHandle =>
             /\ DeleteCalled(p) =>
                   /\ proc'[p].pc = "remove_data"
                   /\ HandleStack(p) # 0 =>
                         stacks'[HandleStack(p)].status = "DELETE_IN_PROGRESS"
                   /\ s3' = s3
             /\ proc[p].pc = "remove_data" /\ proc'[p] # proc[p] =>
                   proc'[p].pc = "wait_delete" /\ stacks' = stacks
             /\ proc[p].pc = "wait_delete" /\ proc'[p].pc = "ready"
                   /\ proc'[p].err = "none" =>
                   /\ HandleStack(p) = 0
                   /\ RunData(p)' = NoObjects]_vars


(***************************************************************************)
(* Properties of the errors that reach the caller.                         *)
(***************************************************************************)
\* The error codes of UserReportError that the operations raise.
Taxonomy ==
    {"PERMISSIONS_ERROR", "CLUSTER_ERROR", "INPUT_ERROR", "DEPENDENCY_ERROR",
     "TIMEOUT_ERROR", "BLASTDB_ERROR"}

\* The exception types of botocore.
BackendErrorTypes ==
    {"ClientError", "NoCredentialsError", "ParamValidationError", "WaiterError"}

\* The operation that object p ran last is one of ensure, submit,
\* check_status, wait_until_done and delete.
LastIsCoreOperation(p) ==
    \/ proc[p].pc = "failed"
    \/ proc[p].pc = "ready" /\ proc[p].last # "upload_query_length"

\* C20: ensure, submit, check_status, wait_until_done and delete never end
\* with an exception of a backend type: a failure of a backend call reaches
\* the caller as an error of the taxonomy.
C20_Original ==
    \A p \in Procs :
        LastIsCoreOperation(p) /\ proc[p].err # "none" =>
            proc[p].err \notin BackendErrorTypes


(***************************************************************************)
(* Properties of the error reporting.                                      *)
(***************************************************************************)
\* The failures that mean the caller may not, or may no longer, ask.
PermissionFaults ==
    {"AccessDenied", "RequestExpired", "ExpiredToken", "ExpiredTokenException",
     "NoCredentialsError"}

\* The operation of p ends on this step, with the error err.
EndsWith(p, err) ==
    /\ proc'[p].pc \in {"ready", "failed"}
    /\ proc'[p].err = err

\* A backend call of p fails on this step.
CallFails(p) ==
    /\ proc'[p].fault # "none"
    /\ proc'[p].fault # proc[p].fault

\* C21: the step on which a backend call of ensure (the stack lookup
\* included), submit, check_status or delete fails ends the operation: with
\* a PermissionError when the failure is access denied, expired credentials
\* or missing credentials, with a ClusterError for every other client error.
C21_Original ==
    [][\A p \in Procs :
          CallFails(p) =>
             EndsWith(p, IF proc'[p].fault \in PermissionFaults
                           THEN "PERMISSIONS_ERROR" ELSE "CLUSTER_ERROR")]_vars


\* The message says that the cluster is not valid or not created yet.
SaysNotValid(message) ==
    \E i \in 1..Len(message) :
        /\ message[i].t = "text"
        /\ message[i].v = " is not valid or not created yet"

\* A listing step of check_status on an object that has no job queue name:
\* botocore raises ParamValidationError.
ParamValidationFails(p) ==
    /\ proc[p].pc \in {"scan", "extended"}
    /\ proc[p].job_queue_name = 0
    /\ proc'[p] # proc[p]

\* C22: a check_status call in which a parameter-validation error is raised
\* (the object has no job queue) ends with a ClusterError whose message says
\* that the cluster is not valid or not created yet.
C22_ParamValidationIsClusterError ==
    [][\A p \in Procs :
          ParamValidationFails(p) =>
             /\ EndsWith(p, "CLUSTER_ERROR")
             /\ SaysNotValid(proc'[p].message)]_vars

\* An object attached under a name without a stack was asked for the status
\* and answered with the ClusterError.
C22_Witness ==
    \E p \in Procs :
        /\ proc[p].cf_stack = NoHandle
        /\ proc[p].job_queue_name = 0
        /\ proc[p].last \in {"check", "check_extended"}
        /\ proc[p].err = "CLUSTER_ERROR"
        /\ SaysNotValid(proc[p].message)


(***************************************************************************)
(* Properties of submission.                                               *)
(***************************************************************************)
\* The step on which p calls submit.
SubmitCall(p) ==
    /\ proc[p].pc = "ready"
    /\ proc'[p] # proc[p]
    /\ \/ proc'[p].pc = "submit_loop"
       \/ proc'[p].pc = "ready" /\ proc'[p].last = "submit"

\* The object of p was built without creation and is not a dry run.
Attached(p) == ~proc[p].create /\ ~proc[p].cfg.dry_run

\* C23: a submit on an object that attached to the existing cluster (ensure
\* without creation found the stack CREATE_COMPLETE) goes on to dispatch
\* the jobs; on an object that attached to a stack still being created the
\* call ends with an error of the taxonomy that reports the conflict.
C23_Original ==
    [][\A p \in Procs :
          SubmitCall(p) /\ Attached(p) =>
             /\ proc[p].cf_stack.status = "CREATE_COMPLETE" =>
                   proc'[p].pc = "submit_loop"
             /\ proc[p].cf_stack.status = "CREATE_IN_PROGRESS" =>
                   proc'[p].pc = "ready" /\ proc'[p].err \in Taxonomy]_vars


\* The job name that the submit_job call of this step passes.
SubmitsJobNamed(p, name) ==
    /\ proc[p].pc = "submit_loop"
    /\ proc'[p] # proc[p]
    /\ name = JobName(OwnerName, proc[p].cfg.program,
                      sanitize_aws_batch_job_name(proc[p].cfg.db), proc[p].loc.i)

\* The names the runs may pass.
JobNames ==
    {JobName(OwnerName, cfg.program, sanitize_aws_batch_job_name(cfg.db), i) :
        cfg \in NameConfigs, i \in 0..(MaxUnits - 1)}

\* C24: the name of every job passed to the backend is
\* elasticblast-{owner}-{program}-batch-{sanitized db label}-job-{i}, is at
\* most as long as a job name may be and has only letters, digits, hyphens
\* and underscores.
C24_Original ==
    [][\A p \in Procs : \A name \in JobNames :
          SubmitsJobNamed(p, name) =>
             /\ TextLen(name) <= AWS_MAX_JOBNAME_LENGTH
             /\ Chars(name) \subseteq {"w", "_", "-"}]_vars


\* The step on which a submit call of p returns with every job accepted.
SubmitReturns(p) ==
    /\ proc[p].pc = "submit_upload"
    /\ proc'[p].pc = "ready"

\* The parameters of the k-th job that the call of p dispatched.
ParametersOfJob(p, k) == jobs[JobById(proc[p].job_ids[k])].parameters

\* C25: when a submit call of the current module returns, the k-th job it
\* dispatched has 'split-part' k-1; with cloud-side splitting the 'num-parts'
\* of each of its jobs is the number of jobs the call dispatched, with local
\* splitting it is the number that stands for "not known".
C25_Original ==
    [][\A p \in Procs :
          SubmitReturns(p) /\ proc[p].cfg.module = "elastic_blast" =>
             \A k \in 1..Len(proc[p].job_ids) :
                /\ ParametersOfJob(p, k).split_part = IntStr(k - 1)
                /\ ParametersOfJob(p, k).num_parts =
                      IF proc[p].loc.cloud_query_split
                        THEN IntStr(Len(proc[p].job_ids))
                        ELSE IntStr(ELB_UNKNOWN_NUMBER_OF_QUERY_SPLITS)]_vars


\* C25 (amended): when a submit call of the current module returns, the
\* k-th job it dispatched has 'split-part' k-1; with cloud-side splitting
\* 'num-parts' is the number of query batches the call was given, with local
\* splitting the number that stands for "not known"; the call dispatched a
\* job for every query batch, or for the first NoSearchJobs of them when
\* ELB_NO_SEARCH is set and the split is cloud-side.
C25_SplitParameters ==
    [][\A p \in Procs :
          SubmitReturns(p) /\ proc[p].cfg.module = "elastic_blast" =>
             LET loc == proc[p].loc IN
             /\ \A k \in 1..Len(proc[p].job_ids) :
                   /\ ParametersOfJob(p, k).split_part = IntStr(k - 1)
                   /\ ParametersOfJob(p, k).num_parts =
                         IF loc.cloud_query_split
                           THEN IntStr(loc.query_batches)
                           ELSE IntStr(ELB_UNKNOWN_NUMBER_OF_QUERY_SPLITS)
             /\ Len(proc[p].job_ids) =
                   IF loc.no_search /\ loc.cloud_query_split /\ loc.query_batches > NoSearchJobs
                     THEN NoSearchJobs ELSE loc.query_batches]_vars

\* A search without search, split in the cloud into one part more than
\* NoSearchJobs, has returned from submit: NoSearchJobs jobs, each told the
\* number of parts.
C25_Witness ==
    \E p \in Procs :
        /\ proc[p].pc = "ready" /\ proc[p].last = "submit" /\ proc[p].err = "none"
        /\ Len(proc[p].job_ids) = NoSearchJobs
        /\ \A k \in 1..Len(jobs) :
              /\ jobs[k].parameters.num_parts = IntStr(NoSearchJobs + 1)
              /\ jobs[k].parameters.split_part = IntStr(k - 1)


(***************************************************************************)
(* Properties of polling.                                                  *)
(***************************************************************************)
\* The jobs that a status answer reports as ended.
Done(status) == status.succeeded + status.failed

\* A check_status call of p returns its answer on this step.
CheckReturns(p) ==
    /\ proc[p].pc = "describe"
    /\ proc'[p].pc = "ready"
    /\ proc'[p].err = "none"

\* C26: the jobs of the search are fixed and only move forward; the number
\* of ended jobs (succeeded + failed) that a check_status call returns is
\* not below the number any earlier call returned, to the same object or to
\* the object of another process.
C26_DoneNeverDecreases ==
    [][\A p \in Procs :
          CheckReturns(p) =>
             \A q \in Procs : Done(proc'[p].status) >= Done(proc[q].status)]_vars

\* An answer with an ended job was followed by an answer with more.
C26_Witness ==
    \E p, q \in Procs :
        /\ proc[p].last = "check"
        /\ proc[q].last = "check"
        /\ Done(proc[p].status) >= 1
        /\ Done(proc[q].status) > Done(proc[p].status)


\* The ids of the describe_jobs calls, one after the other.
RECURSIVE AllDescribed(_, _)
AllDescribed(calls, b) ==
    IF b > Len(calls) THEN <<>> ELSE calls[b] \o AllDescribed(calls, b + 1)

StatusTotal(status) ==
    status.pending + status.running + status.succeeded + status.failed

\* C27: a non-extended check_status asks for the tracked ids in consecutive
\* describe_jobs calls of at most JOB_BATCH_NUM ids each, every id in
\* exactly one call: ceil(N / JOB_BATCH_NUM) calls for N ids, none for no
\* id; the answer counts every tracked job once.
C27_DescribeBatches ==
    [][\A p \in Procs :
          CheckReturns(p) =>
             LET job_ids == proc[p].job_ids
                 calls == DescribeCalls(job_ids, 0)
             IN /\ AllDescribed(calls, 1) = job_ids
                /\ \A b \in 1..Len(calls) :
                      Len(calls[b]) \in 1..JOB_BATCH_NUM
                /\ Len(calls) = (Len(job_ids) + JOB_BATCH_NUM - 1) \div JOB_BATCH_NUM
                /\ (job_ids = <<>>) => (calls = <<>>)
                /\ StatusTotal(proc'[p].status) = Len(job_ids)]_vars

\* A status was returned for a search of two full batches and one job more.
C27_Witness ==
    \E p \in Procs :
        /\ proc[p].last = "check"
        /\ proc[p].pc = "ready"
        /\ proc[p].err = "none"
        /\ Len(proc[p].job_ids) = 2 * JOB_BATCH_NUM + 1
        /\ Len(DescribeCalls(proc[p].job_ids, 0)) = 3
        /\ StatusTotal(proc[p].status) = 2 * JOB_BATCH_NUM + 1


(***************************************************************************)
(* Properties of the race of two constructors.                             *)
(***************************************************************************)
\* Process p has passed the existence check of a create call and has not
\* yet called create_stack.
PassedExistenceCheck(p) ==
    /\ proc[p].pc = "create"
    /\ proc[p].create
    /\ ~proc[p].initialized

\* C28: nothing is looked up again between the existence check and
\* create_stack: every process that has passed the check issues its create
\* request, also when another process has created the stack in between (the
\* request is then refused by the backend), so two processes that have both
\* passed the check both issue one.
C28_CheckIsAdvisory ==
    [][\A p \in Procs :
          PassedExistenceCheck(p) /\ proc'[p] # proc[p] =>
             /\ proc'[p].requests = proc[p].requests + 1
             /\ StackByName(proc[p].cfg.name) # 0 =>
                    /\ proc'[p].pc = "failed"
                    /\ proc'[p].err = "CLUSTER_ERROR"
                    /\ stacks' = stacks]_vars

\* Both processes have passed the existence check for the same results
\* location and neither has issued its create request.
C28_Witness ==
    /\ \A p \in Procs : PassedExistenceCheck(p) /\ proc[p].requests = 0
    /\ \A p, q \in Procs :
          /\ proc[p].cfg.results = proc[q].cfg.results
          /\ proc[p].cfg.name = proc[q].cfg.name
    /\ \A p \in Procs : StackByName(proc[p].cfg.name) = 0


(***************************************************************************)
(* Properties of the cluster name.                                         *)
(***************************************************************************)
Constructed(p) == proc[p].pc # "none"

\* The runs of p and q have the same results location, written with or
\* without one trailing '/'.
SameLocation(p, q) == Location(proc[p].cfg.value) = Location(proc[q].cfg.value)

\* The runs of p and q have the same cluster name and address the same
\* stack.
SameCluster(p, q) ==
    /\ proc[p].cfg.name = proc[q].cfg.name
    /\ StackByName(proc[p].cfg.name) = StackByName(proc[q].cfg.name)
    /\ proc[p].cf_stack # NoHandle /\ proc[q].cf_stack # NoHandle =>
          proc[p].cf_stack.name = proc[q].cf_stack.name

\* C29 as stated: the same owner and results location give the same cluster
\* name.
C29_Original ==
    \A p, q \in Procs :
        Constructed(p) /\ Constructed(q) /\ SameLocation(p, q) => SameCluster(p, q)

\* C29: two configurations of one owner that give no cluster name and have
\* the same results location, written with or without one trailing '/', get
\* the same cluster name and address the same stack.
C29_DefaultNameOfLocation ==
    \A p, q \in Procs :
        /\ Constructed(p) /\ Constructed(q)
        /\ ~proc[p].cfg.custom /\ ~proc[q].cfg.custom
        /\ SameLocation(p, q)
        => SameCluster(p, q)

\* One run wrote the location with the trailing '/' and created the stack,
\* the other wrote it without and is attached to that stack.
C29_Witness ==
    \E p, q \in Procs :
        /\ Constructed(p) /\ Constructed(q)
        /\ proc[p].cfg.value = ResultsR1Slash /\ proc[q].cfg.value = ResultsR1
        /\ ~proc[p].cfg.custom /\ ~proc[q].cfg.custom
        /\ proc[p].create /\ proc[p].requests = 1 /\ proc[p].pc = "ready"
        /\ ~proc[q].create /\ proc[q].initialized /\ proc[q].pc = "ready"
        /\ proc[q].cf_stack.name = proc[p].cfg.name


(***************************************************************************)
(* Properties of the live listing.                                         *)
(***************************************************************************)
AllJobIds == {jobs[k].id : k \in 1..Len(jobs)}

\* get_job_ids of p returns on this step.
ScanReturns(p) == proc[p].pc = "scan" /\ proc'[p].pc = "upload"

\* The extended scan of p returns its counts on this step.
ExtendedReturns(p) ==
    /\ proc[p].pc = "extended"
    /\ proc'[p].pc = "ready"
    /\ proc'[p].err = "none"

\* C30: the jobs are in the queue during the whole scan and only move
\* forward.  get_job_ids returns the id of every job exactly once, and the
\* extended scan counts every job exactly once, whatever the jobs do between
\* the list_jobs calls of the scan.
C30_EveryJobListedOnce ==
    [][\A p \in Procs :
          /\ ScanReturns(p) =>
                /\ Range(proc'[p].job_ids) = AllJobIds
                /\ NoDuplicates(proc'[p].job_ids)
          /\ ExtendedReturns(p) =>
                StatusTotal(proc'[p].status) = Len(jobs)]_vars

\* A scan has returned every job although a job it had listed as RUNNING
\* has ended since and a job it had not yet listed has gone on.
C30_Witness ==
    \E p \in Procs :
        /\ proc[p].pc = "upload"
        /\ Range(proc[p].job_ids) = AllJobIds
        /\ Len(proc[p].job_ids) = MaxJobs
        /\ \E k \in 1..Len(jobs) : jobs[k].status \in Terminal
        /\ \E k \in 1..Len(jobs) : jobs[k].status \notin Terminal \cup {"SUBMITTED"}


(***************************************************************************)
(* Properties of the extended status.                                      *)
(***************************************************************************)
\* The job ids a non-extended check_status of object o would ask about in
\* the present state: those in memory, else those of the ledger, else those
\* the listing of the job queue finds.
NonExtendedIds(o) ==
    LET blob == s3[o.cfg.results].job_ids
    IN IF o.job_ids # <<>> THEN o.job_ids
       ELSE IF blob # NoBlob THEN JsonLoads(blob)
       ELSE get_job_ids_of(o.job_queue_name)

\* The counts a non-extended check_status of object o would return in the
\* present state.
NonExtendedCounts(o) == StatusOfCounts(CountBatches(NonExtendedIds(o), 0, ZeroCounts))

\* A non-extended check_status of object o would write the ledger in the
\* present state.
NonExtendedWritesLedger(o) ==
    o.job_ids = <<>> /\ s3[o.cfg.results].job_ids = NoBlob

\* C31 as stated: an extended check_status returns the counts that a
\* non-extended one would return in the same state, and leaves the job ids
\* in memory and the ledger as the non-extended one would.
C31_Original ==
    [][\A p \in Procs :
          ExtendedReturns(p) =>
             /\ proc'[p].status = NonExtendedCounts(proc[p])
             /\ proc'[p].job_ids = NonExtendedIds(proc[p])
             /\ NonExtendedWritesLedger(proc[p]) =>
                    s3'[proc[p].cfg.results].job_ids # NoBlob]_vars

\* C31: an extended check_status counts the jobs that are in the job queue
\* and leaves the job ids in memory and the ledger as they are; its counts
\* are those of the non-extended call when the job ids that call would ask
\* about are the ids of the jobs in the queue.
C31_ExtendedCountsTheQueue ==
    [][\A p \in Procs :
          ExtendedReturns(p) =>
             /\ \A b \in Buckets : proc'[p].status[b] = InBucket(AskedJobs(p), b)
             /\ proc'[p].job_ids = proc[p].job_ids
             /\ s3' = s3
             /\ Range(NonExtendedIds(proc[p])) = QueueIds(p) =>
                    proc'[p].status = NonExtendedCounts(proc[p])]_vars

\* An extended answer for an object that holds fewer job ids than the queue
\* has jobs.
C31_Witness ==
    \E p \in Procs :
        /\ Returned(p, "check_extended")
        /\ Len(proc[p].job_ids) < Cardinality(QueueIds(p))
        /\ Sum(proc[p].status) = Cardinality(QueueIds(p))


(***************************************************************************)
(* Properties of the threshold of wait_until_done.                         *)
(***************************************************************************)
\* Object o is inside the loop of wait_until_done, its total taken.
InWaitLoop(o) == o.pc = "wait_loop" \/ o.loc.caller = "wait_loop"

\* C32: wait_until_done takes the total number of jobs from the answer of
\* its first check_status; every later step of the call leaves that total
\* as it is, whatever the later answers add up to, and the call returns
\* only when the ended jobs of an answer number that total.
C32_TotalFixedAtFirstPoll ==
    [][\A p \in Procs :
          /\ (proc[p].pc = "wait_first" /\ proc'[p].pc = "wait_loop") =>
                proc'[p].loc.njobs = Sum(proc[p].status)
          /\ (InWaitLoop(proc[p]) /\ InWaitLoop(proc'[p])) =>
                proc'[p].loc.njobs = proc[p].loc.njobs
          /\ (proc[p].pc = "wait_loop" /\ proc'[p].pc = "ready") =>
                proc[p].loc.ndone = proc[p].loc.njobs]_vars

\* A later poll has answered with a smaller total than the first one, and
\* the call goes on with the total of the first.
C32_Witness ==
    \E p \in Procs :
        /\ proc[p].pc = "wait_loop"
        /\ proc[p].loc.njobs = MaxJobs
        /\ proc[p].loc.ndone >= 1
        /\ Sum(proc[p].status) < proc[p].loc.njobs


(***************************************************************************)
(* Properties of the ledger under concurrent calls.                        *)
(***************************************************************************)
\* The submit call of p has returned with every unit accepted and the
\* ledger written.
SubmitPersisted(p) ==
    /\ Returned(p, "submit")
    /\ Len(proc[p].job_ids) >= 1

\* C33: once a submit call has written the ledger with its N job ids, the
\* ledger holds those N ids (here: no delete and no further submit), also
\* when another process has asked for the status while the submit ran.
C33_Original ==
    \A p \in Procs :
        SubmitPersisted(p) =>
            /\ Ledger(p) # NoBlob
            /\ JsonLoads(Ledger(p)) # JsonError
            /\ Range(JsonLoads(Ledger(p))) = Range(proc[p].job_ids)


(***************************************************************************)
(* Properties of a deletion that does not complete.                        *)
(***************************************************************************)
\* The WaiterError handler of the delete call of p reads the status of the
\* stack on this step, and the stack is there.
DeleteWaitFailed(p) ==
    /\ proc[p].pc = "delete_waiter_error"
    /\ proc'[p] # proc[p]
    /\ HandleStack(p) # 0

\* The reasons of the failure events of a stack that are no cancellations.
FailureReasons(k) ==
    {stacks[k].events[n].resource_status_reason :
        n \in {m \in 1..Len(stacks[k].events) :
                  /\ stacks[k].events[m].resource_status \in {"CREATE_FAILED", "DELETE_FAILED"}
                  /\ ~IsCancelled(stacks[k].events[m].resource_status_reason)}}

\* The reasons a message carries, and whether it says 'unknown reason'.
ReasonsIn(message) ==
    {message[n].reason : n \in {m \in 1..Len(message) : message[m].t = "event"}}

SaysUnknownReason(message) ==
    \E n \in 1..Len(message) : message[n] = Tok("text", " for unknown reason")

\* The error of a delete whose wait ended without success: TIMEOUT_ERROR
\* for a stack still DELETE_IN_PROGRESS, otherwise DEPENDENCY_ERROR with the
\* reasons of the failure events, or 'unknown reason' when there is none.
DeleteFailureIsReported(p) ==
    LET k == HandleStack(p) IN
    /\ stacks[k].status = "DELETE_IN_PROGRESS" =>
          /\ proc'[p].pc = "ready"
          /\ proc'[p].err = "TIMEOUT_ERROR"
    /\ stacks[k].status \notin {"DELETE_IN_PROGRESS", "DELETE_COMPLETE"} =>
          /\ proc'[p].pc = "ready"
          /\ proc'[p].err = "DEPENDENCY_ERROR"
          /\ ReasonsIn(proc'[p].message) = FailureReasons(k)
          /\ SaysUnknownReason(proc'[p].message) <=> FailureReasons(k) = {}

\* The error categories of C34 alone.
DeleteFailureCategories ==
    [][\A p \in Procs : DeleteWaitFailed(p) => DeleteFailureIsReported(p)]_vars

\* C34: when the wait for the deletion ends without success, delete fails
\* with TIMEOUT_ERROR if the stack is still DELETE_IN_PROGRESS and with
\* DEPENDENCY_ERROR, carrying the reasons of the failure events or 'unknown
\* reason', in any state other than DELETE_COMPLETE; in both cases the
\* query-batch, metadata and log data of the run are removed by then.
C34_Original ==
    [][\A p \in Procs :
          DeleteWaitFailed(p) =>
             /\ DeleteFailureIsReported(p)
             /\ RunData(p) = NoObjects]_vars


\* A delete has ended with the time-out, with the reasons of the failure
\* events, and with 'unknown reason'.
DeleteTimedOutReached ==
    \E p \in Procs :
       /\ proc[p].last = "delete" /\ proc[p].err = "TIMEOUT_ERROR"
       /\ proc[p].message = DeletionTimedOutMessage

DeleteFailedReached ==
    \E p \in Procs :
       /\ proc[p].last = "delete" /\ proc[p].err = "DEPENDENCY_ERROR"
       /\ ReasonsIn(proc[p].message) # {}

DeleteFailedUnknownReached ==
    \E p \in Procs :
       /\ proc[p].last = "delete" /\ proc[p].err = "DEPENDENCY_ERROR"
       /\ SaysUnknownReason(proc[p].message)


(***************************************************************************)
(* Constructor calls on runs with standard and with user databases.        *)
(***************************************************************************)
\* pdb_nt; s3://dbs/custom/pdb_nt and s3://dbs/custom/pdb, which the
\* listing finds; s3://dbs/custom/nt.v5, s3://dbs/custom (the directory)
\* and s3://nobucket/custom/pdb_nt, which it does not; gs://dbs/custom/pdb_nt.
Databases ==
    {[scheme |-> "", dir |-> <<>>, name |-> PdbNt],
     [scheme |-> "s3://", dir |-> <<"dbs", "custom">>, name |-> PdbNt],
     [scheme |-> "s3://", dir |-> <<"dbs", "custom">>, name |-> <<Run("w", 3)>>],
     [scheme |-> "s3://", dir |-> <<"dbs", "custom">>,
      name |-> <<Run("w", 2), Run(".", 1), Run("w", 2)>>],
     [scheme |-> "s3://", dir |-> <<"dbs">>, name |-> <<Run("w", 6)>>],
     [scheme |-> "s3://", dir |-> <<"nobucket", "custom">>, name |-> PdbNt],
     [scheme |-> "gs://", dir |-> <<"dbs", "custom">>, name |-> PdbNt]}

DbConfigs ==
    {UserDb(ElasticBlastConfig(ResultsR1, "", dry_run, "elastic_blast"),
            db.scheme, db.dir, db.name) :
        dry_run \in BOOLEAN, db \in Databases}

NextDb ==
    \/ \E p \in Procs, cfg \in DbConfigs, create \in BOOLEAN :
          Construct(p, cfg, create) /\ Call
    \/ \E p \in Procs : Ensure(p) /\ Step
    \/ \E k \in 1..MaxStacks : stack_progress(k) /\ Step

SpecDb == Init /\ [][NextDb]_vars

\* The database of a configuration is a user database in S3 of which the
\* bucket holds no file, or it lies in gs://.
DbInS3(cfg) == cfg.db_scheme = "s3://"

DbFiles(cfg) ==
    {ob \in DatabaseObjects :
        /\ <<ob.bucket[1]>> \o ob.dir = cfg.db_dir
        /\ StartsWith(ob.file, cfg.db)}

DbInGs(cfg) == cfg.db_scheme = "gs://"

\* The constructor call of p has ended with BLASTDB_ERROR before it looked
\* a stack up or asked for one.
RefusedForDatabase(p) ==
    /\ proc[p].pc = "failed"
    /\ proc[p].err = "BLASTDB_ERROR"
    /\ proc[p].initialized
    /\ proc[p].cf_stack = NoHandle
    /\ proc[p].requests = 0

\* C35 as stated: a constructor call with create=True for a database that
\* does not exist in its S3 location or lies in gs:// ends with
\* BLASTDB_ERROR before any stack lookup and without a create_stack request.
C35_Original ==
    \A p \in Procs :
       /\ Constructed(p) /\ proc[p].create
       /\ \/ DbInS3(proc[p].cfg) /\ DbFiles(proc[p].cfg) = {}
          \/ DbInGs(proc[p].cfg)
       => RefusedForDatabase(p)

\* C35: a constructor call with create=True ends with BLASTDB_ERROR, before
\* any stack lookup and without a create_stack request, if the database
\* lies in gs://, or if it is an S3 database of which no file is found and
\* the run is no dry run.
C35_EarlyDatabaseCheck ==
    \A p \in Procs :
       /\ Constructed(p) /\ proc[p].create
       /\ \/ DbInS3(proc[p].cfg) /\ DbFiles(proc[p].cfg) = {} /\ ~proc[p].cfg.dry_run
          \/ DbInGs(proc[p].cfg)
       => RefusedForDatabase(p)

\* A create call for a database that is not in the bucket has been refused
\* while the stack of its cluster name exists: the stack lookup, which
\* would refuse the call with INPUT_ERROR, was not reached.
C35_Witness ==
    \E p \in Procs :
       /\ proc[p].create /\ ~proc[p].cfg.dry_run
       /\ DbInS3(proc[p].cfg) /\ DbFiles(proc[p].cfg) = {}
       /\ RefusedForDatabase(p)
       /\ StackByName(proc[p].cfg.name) # 0


(***************************************************************************)
(* Kubernetes: the initialization of the local SSDs                        *)
(* (src/src/elastic_blast/kubernetes.py).  In the specifications of this   *)
(* part, jobs holds the jobs of the Kubernetes cluster.                    *)
(***************************************************************************)
MaxInitPv == 2
MaxNodes == 2

\* cfg.timeouts.init_pv (minutes, a positive integer) and
\* cfg.cluster.num_nodes of a run on Kubernetes.
K8sConfig(init_pv, num_nodes, dry_run) ==
    ElasticBlastConfig(ResultsR1, "", dry_run, "elastic_blast")
       @@ [init_pv |-> init_pv, num_nodes |-> num_nodes]

K8sConfigs ==
    {K8sConfig(init_pv, num_nodes, dry_run) :
        init_pv \in 1..MaxInitPv, num_nodes \in 1..MaxNodes, dry_run \in BOOLEAN}

\* The setup job of node n, as kubectl apply creates it.
InitSsdJob(n) == [name |-> <<"init-ssd", n>>, status |-> "active"]

\* kubectl get jobs -o jsonpath={.items[?(@.status.<status>)].metadata.name}
JobsWithStatus(status) ==
    {jobs[k].name : k \in {m \in 1..Len(jobs) : jobs[m].status = status}}

\* initialize_local_ssd: "sec2wait = 20".
sec2wait == 20

\* initialize_local_ssd up to the loop: the job files are written,
\* kubectl apply creates the jobs, "timeout = init_blastdb_minutes_timeout
\* * 60".
ssd_start(p, cfg) ==
    /\ proc[p].pc = "none"
    /\ jobs = <<>>
    /\ proc' = [proc EXCEPT ![p] =
                   [NoObject EXCEPT !.pc = "ssd_poll", !.cfg = cfg,
                                    !.loc = [NoLocals EXCEPT !.timeout = cfg.init_pv * 60]]]
    /\ jobs' = IF cfg.dry_run THEN jobs
               ELSE [n \in 1..cfg.num_nodes |-> InitSsdJob(n - 1)]
    /\ UNCHANGED <<stacks, s3>>

\* One pass of "while timeout > 0": the jobs are listed; a failed job ends
\* the call, no active job ends the loop, otherwise the call sleeps.
ssd_poll(p) ==
    LET o == proc[p]
        active == IF o.cfg.dry_run THEN {} ELSE JobsWithStatus("active")
        failed == IF o.cfg.dry_run THEN {} ELSE JobsWithStatus("failed")
    IN
    /\ o.pc = "ssd_poll"
    /\ IF ~(o.loc.timeout > 0)
         THEN proc' = [proc EXCEPT ![p].pc = "ssd_after_loop"]
       ELSE IF failed # {}
         THEN MethodRaise(p, "RuntimeError", "initialize_local_ssd")
       ELSE IF active = {}
         THEN proc' = [proc EXCEPT ![p].pc = "ssd_after_loop"]
       ELSE proc' = [proc EXCEPT ![p].loc.timeout = @ - sec2wait]
    /\ UNCHANGED <<stacks, jobs, s3>>

\* Variant of SsdTimedOut that takes the time used up for a time-out.
SsdTimedOut_at_zero(timeout) == timeout <= 0

\* initialize_local_ssd: "if timeout < 0".
SsdTimedOut(timeout) == timeout < 0

\* After the loop: the time-out test, then kubectl delete jobs -l app=setup
\* (ELB_DONT_DELETE_SETUP_JOBS is not set).
ssd_after_loop(p) ==
    LET o == proc[p] IN
    /\ o.pc = "ssd_after_loop"
    /\ IF SsdTimedOut(o.loc.timeout)
         THEN /\ MethodRaise(p, "TimeoutError", "initialize_local_ssd")
              /\ UNCHANGED jobs
         ELSE /\ proc' = [proc EXCEPT ![p].pc = "ready", ![p].last = "initialize_local_ssd"]
              /\ jobs' = IF o.cfg.dry_run THEN jobs ELSE <<>>
    /\ UNCHANGED <<stacks, s3>>

\* A setup job ends.
k8s_job_progress(k) ==
    /\ k \in 1..Len(jobs)
    /\ jobs[k].status = "active"
    /\ \E status \in {"succeeded", "failed"} : jobs' = [jobs EXCEPT ![k].status = status]
    /\ UNCHANGED <<stacks, s3, proc>>

NextSsd ==
    \/ \E cfg \in K8sConfigs : ssd_start(Creator, cfg) /\ Step
    \/ ssd_poll(Creator) /\ Step
    \/ ssd_after_loop(Creator) /\ Step
    \/ \E k \in 1..MaxNodes : k8s_job_progress(k) /\ Step

SpecSsd == Init /\ [][NextSsd]_vars

\* The step in which initialize_local_ssd returns.
SsdReturns(p) ==
    /\ proc[p].pc = "ssd_after_loop"
    /\ proc'[p].pc = "ready"
    /\ proc'[p].err = "none"

\* C36: initialize_local_ssd does not return while a setup job is still
\* active; when the jobs stay active for the whole time allowed, it ends
\* with TimeoutError and does not delete the setup jobs.
C36_Original ==
    [][\A p \in Procs :
          /\ SsdReturns(p) => JobsWithStatus("active") = {}
          /\ proc[p].pc = "ssd_after_loop" /\ proc'[p] # proc[p]
                /\ proc[p].loc.timeout <= 0 /\ JobsWithStatus("active") # {} =>
                /\ proc'[p].err = "TimeoutError"
                /\ jobs' = jobs]_vars


(***************************************************************************)
(* Kubernetes: waiting for one job.                                        *)
(***************************************************************************)
MaxAttempts == 3

\* The answers of kubectl get -f <job file> -o json, in the order a job
\* goes through them: no output; an object without status; a status
\* without conditions (the last answer of a job that runs, JobRunning);
\* then condition Complete with the number of succeeded pods, or condition
\* Failed with the number of failed pods (0: the key is not there).
KubectlGet(has_stdout, has_status, conditions, succeeded, failed) ==
    [stdout |-> has_stdout, has_status |-> has_status, conditions |-> conditions,
     succeeded |-> succeeded, failed |-> failed]

JobAnswers ==
    <<KubectlGet(FALSE, FALSE, <<>>, 0, 0),
      KubectlGet(TRUE, FALSE, <<>>, 0, 0),
      KubectlGet(TRUE, TRUE, <<>>, 0, 0),
      KubectlGet(TRUE, TRUE, <<"Complete">>, 1, 0),
      KubectlGet(TRUE, TRUE, <<"Complete">>, 2, 0),
      KubectlGet(TRUE, TRUE, <<"Failed">>, 0, 2),
      KubectlGet(TRUE, TRUE, <<"Failed">>, 0, 0)>>

JobRunning == 3

\* _job_succeeded: "True", "False" or the exception raised.
job_succeeded(exists, dry_run, out) ==
    IF ~exists THEN "FileNotFoundError"
    ELSE IF dry_run THEN "True"
    ELSE IF ~out.stdout THEN "False"
    ELSE IF ~out.has_status THEN "False"
    ELSE LET final_status == IF Len(out.conditions) > 0 THEN out.conditions[1] ELSE ""
         IN IF final_status = "Complete" /\ out.succeeded # 0
              THEN IF out.succeeded = 1 THEN "True" ELSE "False"
            ELSE IF final_status = "Failed" /\ out.failed # 0
              THEN "RuntimeError"
            ELSE "False"

\* Variant of MorePolls with one more pass.
MorePolls_inclusive(counter, attempts) == counter <= attempts

\* _wait_for_job: "for counter in range(attempts)".
MorePolls(counter, attempts) == counter < attempts

wait_for_job_start(p, attempts, dry_run, exists) ==
    /\ proc[p].pc = "none"
    /\ proc' = [proc EXCEPT ![p] =
                   [NoObject EXCEPT !.pc = "wait_for_job",
                                    !.cfg = K8sConfig(1, 1, dry_run),
                                    !.loc = [NoLocals EXCEPT !.attempts = attempts,
                                                             !.exists = exists]]]
    /\ UNCHANGED <<stacks, jobs, s3>>

\* One pass of the loop of _wait_for_job: a call of _job_succeeded and,
\* after a False, the sleep; or the else clause of the loop.
wait_for_job_poll(p) ==
    LET o == proc[p]
        answer == job_succeeded(o.loc.exists, o.cfg.dry_run, JobAnswers[jobs[1].answer])
        polled == [o EXCEPT !.loc.polls = @ + 1]
    IN
    /\ o.pc = "wait_for_job"
    /\ proc' = [proc EXCEPT ![p] =
          IF ~MorePolls(o.loc.counter, o.loc.attempts)
            THEN [o EXCEPT !.pc = "ready", !.err = "TimeoutError", !.last = "_wait_for_job"]
          ELSE IF answer = "True"
            THEN [polled EXCEPT !.pc = "ready", !.last = "_wait_for_job"]
          ELSE IF answer = "False"
            THEN [polled EXCEPT !.loc.counter = @ + 1]
          ELSE [polled EXCEPT !.pc = "ready", !.err = answer, !.last = "_wait_for_job"]]
    /\ UNCHANGED <<stacks, jobs, s3>>

\* The job goes on: its answer becomes a later one.  A job that has an end
\* condition keeps it.
k8s_job_step(k) ==
    /\ k \in 1..Len(jobs)
    /\ jobs[k].answer <= JobRunning
    /\ \E later \in (jobs[k].answer + 1)..Len(JobAnswers) :
          jobs' = [jobs EXCEPT ![k].answer = later]
    /\ UNCHANGED <<stacks, s3, proc>>

InitWaitForJob ==
    /\ stacks = <<>>
    /\ jobs = <<[name |-> <<"job", 0>>, answer |-> 1]>>
    /\ s3 = [r \in S3Locations |-> NoObjects]
    /\ proc = [p \in Procs |-> NoObject]
    /\ ncalls = 0

NextWaitForJob ==
    \/ \E attempts \in 0..MaxAttempts, dry_run \in BOOLEAN, exists \in BOOLEAN :
          wait_for_job_start(Creator, attempts, dry_run, exists) /\ Step
    \/ wait_for_job_poll(Creator) /\ Step
    \/ k8s_job_step(1) /\ Step

SpecWaitForJob == InitWaitForJob /\ [][NextWaitForJob]_vars

\* What the job file of the call of p answers now.
PollAnswer(p) ==
    job_succeeded(proc[p].loc.exists, proc[p].cfg.dry_run, JobAnswers[jobs[1].answer])

\* The job is reported succeeded: a dry run, or the end condition Complete
\* with one succeeded pod; it is reported failed with the end condition
\* Failed and a number of failed pods.
ReportedSucceeded(p) ==
    \/ proc[p].cfg.dry_run
    \/ JobAnswers[jobs[1].answer] = KubectlGet(TRUE, TRUE, <<"Complete">>, 1, 0)

ReportedFailed(p) ==
    /\ ~proc[p].cfg.dry_run
    /\ JobAnswers[jobs[1].answer].conditions = <<"Failed">>
    /\ JobAnswers[jobs[1].answer].failed > 0

\* C37: _wait_for_job polls at most attempts times; it returns at the
\* first poll that reports the job succeeded, raises TimeoutError after
\* attempts polls without success, and the RuntimeError of a failed job
\* ends it at the poll that observes the failure.
C37_BoundedPolls ==
    [][\A p \in Procs :
          proc[p].pc = "wait_for_job" /\ proc'[p] # proc[p] /\ proc[p].loc.exists =>
             LET polls == proc[p].loc.polls
                 attempts == proc[p].loc.attempts
             IN
             /\ proc'[p].loc.polls <= attempts
             /\ polls < attempts /\ ReportedSucceeded(p) =>
                   /\ proc'[p].pc = "ready" /\ proc'[p].err = "none"
                   /\ proc'[p].loc.polls = polls + 1
             /\ polls < attempts /\ ReportedFailed(p) =>
                   /\ proc'[p].pc = "ready" /\ proc'[p].err = "RuntimeError"
                   /\ proc'[p].loc.polls = polls + 1
             /\ polls < attempts /\ ~ReportedSucceeded(p) /\ ~ReportedFailed(p) =>
                   /\ proc'[p].pc = "wait_for_job"
                   /\ proc'[p].loc.polls = polls + 1
             /\ polls = attempts =>
                   /\ proc'[p].pc = "ready" /\ proc'[p].err = "TimeoutError"
                   /\ proc'[p].loc.polls = polls
             /\ proc'[p].pc = "ready" /\ proc'[p].err = "none" => ReportedSucceeded(p)]_vars

\* A call has returned at the last poll it was allowed; one has timed out
\* after all its polls; one has ended with the RuntimeError of the job at
\* its second poll.
C37_Witness ==
    \E p \in Procs :
       /\ proc[p].last = "_wait_for_job" /\ proc[p].err = "none"
       /\ ~proc[p].cfg.dry_run
       /\ proc[p].loc.attempts = MaxAttempts /\ proc[p].loc.polls = MaxAttempts

WaitForJobTimedOut ==
    \E p \in Procs :
       /\ proc[p].last = "_wait_for_job" /\ proc[p].err = "TimeoutError"
       /\ proc[p].loc.attempts = MaxAttempts /\ proc[p].loc.polls = MaxAttempts

WaitForJobFailed ==
    \E p \in Procs :
       /\ proc[p].last = "_wait_for_job" /\ proc[p].err = "RuntimeError"
       /\ proc[p].loc.polls = 2


(***************************************************************************)
(* Kubernetes: the submission of the jobs, retried.                        *)
(***************************************************************************)
\* The parameters of the retry decorator are those of constants.py; the
\* policy is followed for small values of them, in seconds.
ELB_K8S_JOB_SUBMISSION_MAX_RETRIES == 4
ELB_K8S_JOB_SUBMISSION_TIMEOUT == 8
ELB_K8S_JOB_SUBMISSION_MIN_WAIT == 1
ELB_K8S_JOB_SUBMISSION_MAX_WAIT == 2

\* The seconds one call of submit_jobs may take.
MaxDuration == 2

\* Variant of stop_after_attempt that never stops.
stop_after_attempt_never(attempt_number) == FALSE

\* tenacity.stop_after_attempt(ELB_K8S_JOB_SUBMISSION_MAX_RETRIES)
stop_after_attempt(attempt_number) ==
    attempt_number >= ELB_K8S_JOB_SUBMISSION_MAX_RETRIES

\* tenacity.stop_after_delay(ELB_K8S_JOB_SUBMISSION_TIMEOUT)
stop_after_delay(seconds_since_start) ==
    seconds_since_start >= ELB_K8S_JOB_SUBMISSION_TIMEOUT

\* tenacity.wait_random(min, max), in whole seconds.
wait_random == ELB_K8S_JOB_SUBMISSION_MIN_WAIT..ELB_K8S_JOB_SUBMISSION_MAX_WAIT

\* The job kubectl apply creates from the job file.
BlastJob == [name |-> <<"blast", 0>>, answer |-> 1]

\* submit_jobs_with_retries is called: the first attempt is due.
retries_start(p, dry_run) ==
    /\ proc[p].pc = "none"
    /\ proc' = [proc EXCEPT ![p] =
                   [NoObject EXCEPT !.pc = "attempt", !.cfg = K8sConfig(1, 1, dry_run),
                                    !.loc = [NoLocals EXCEPT !.attempt_number = 1]]]
    /\ UNCHANGED <<stacks, jobs, s3>>

\* One attempt: submit_jobs is called; it returns the names of the jobs
\* (kubectl apply has created them, except in a dry run) or raises
\* (RuntimeError for a path that does not exist or an empty directory,
\* SafeExecError of kubectl).
retries_attempt(p) ==
    LET o == proc[p] IN
    /\ o.pc = "attempt"
    /\ \E duration \in 0..MaxDuration, raised \in BOOLEAN :
          LET called == [o EXCEPT !.requests = @ + 1, !.loc.delay = @ + duration]
          IN IF raised
               THEN /\ proc' = [proc EXCEPT ![p] = [called EXCEPT !.pc = "attempt_failed"]]
                    /\ UNCHANGED jobs
               ELSE /\ proc' = [proc EXCEPT ![p] =
                          [called EXCEPT !.pc = "ready", !.last = "submit_jobs_with_retries",
                                         !.job_ids = <<BlastJob.name>>]]
                    /\ jobs' = IF o.cfg.dry_run THEN jobs ELSE Append(jobs, BlastJob)
    /\ UNCHANGED <<stacks, s3>>

\* After an attempt that raised: the stop condition ends the call with
\* RetryError; otherwise the call sleeps and the next attempt is due.
retries_failed(p) ==
    LET o == proc[p] IN
    /\ o.pc = "attempt_failed"
    /\ IF stop_after_delay(o.loc.delay) \/ stop_after_attempt(o.loc.attempt_number)
         THEN MethodRaise(p, "RetryError", "submit_jobs_with_retries")
         ELSE \E sleep \in wait_random :
                 proc' = [proc EXCEPT ![p].pc = "attempt",
                                      ![p].loc.attempt_number = @ + 1,
                                      ![p].loc.delay = @ + sleep]
    /\ UNCHANGED <<stacks, jobs, s3>>

NextRetries ==
    \/ \E dry_run \in BOOLEAN : retries_start(Creator, dry_run) /\ Step
    \/ retries_attempt(Creator) /\ Step
    \/ retries_failed(Creator) /\ Step

SpecRetries == Init /\ [][NextRetries]_vars

\* C38: submit_jobs_with_retries calls submit_jobs at most
\* ELB_K8S_JOB_SUBMISSION_MAX_RETRIES times and not again once the delay
\* bound has passed at a failure; it returns the result of the first
\* attempt that succeeds, without a further attempt, and ends with an
\* error when a bound is reached without a success.
C38_BoundedRetry ==
    [][\A p \in Procs :
          /\ proc[p].pc = "attempt" /\ proc'[p] # proc[p] =>
                /\ proc'[p].requests = proc[p].requests + 1
                /\ proc'[p].requests <= ELB_K8S_JOB_SUBMISSION_MAX_RETRIES
                /\ proc'[p].pc \in {"ready", "attempt_failed"}
                /\ proc'[p].pc = "ready" =>
                      /\ proc'[p].err = "none"
                      /\ proc'[p].job_ids = <<BlastJob.name>>
          /\ proc[p].pc = "attempt_failed" /\ proc'[p] # proc[p] =>
                /\ proc'[p].requests = proc[p].requests
                /\ IF \/ proc[p].requests >= ELB_K8S_JOB_SUBMISSION_MAX_RETRIES
                      \/ proc[p].loc.delay >= ELB_K8S_JOB_SUBMISSION_TIMEOUT
                     THEN proc'[p].pc = "ready" /\ proc'[p].err = "RetryError"
                     ELSE proc'[p].pc = "attempt"
          /\ proc[p].pc = "ready" => proc'[p] = proc[p]]_vars

\* The call has returned the result of its last allowed attempt.
C38_Witness ==
    \E p \in Procs :
       /\ proc[p].last = "submit_jobs_with_retries" /\ proc[p].err = "none"
       /\ proc[p].requests = ELB_K8S_JOB_SUBMISSION_MAX_RETRIES

\* The call has ended with RetryError after the last allowed attempt, and
\* after fewer attempts that took the whole time allowed.
RetriesExhausted ==
    \E p \in Procs :
       /\ proc[p].err = "RetryError"
       /\ proc[p].requests = ELB_K8S_JOB_SUBMISSION_MAX_RETRIES
       /\ proc[p].loc.delay < ELB_K8S_JOB_SUBMISSION_TIMEOUT

RetriesTimedOut ==
    \E p \in Procs :
       /\ proc[p].err = "RetryError"
       /\ proc[p].requests < ELB_K8S_JOB_SUBMISSION_MAX_RETRIES


(***************************************************************************)
(* clean_up (src/src/elb/util.py).                                         *)
(***************************************************************************)
MaxStages == 3
MaxInterrupts == 2

\* A cleanup stage: a callable that returns or raises an Exception whose
\* text is its own.
Stage(id, raises) == [id |-> id, raises |-> raises]

\* The stacks clean_up is called with: the stage pushed first is stage 1.
CleanUpStacks ==
    UNION {{[k \in 1..n |-> Stage(k, raises[k])] : raises \in [1..n -> BOOLEAN]} :
              n \in 0..MaxStages}

\* str(err) of the exception of a stage.
ErrText(stage) == <<"error of stage", stage.id>>

\* Variant of TopStage that takes the stage pushed first.
TopStage_first(clean_up_stack) == clean_up_stack[1]

\* clean_up: "stage = clean_up_stack[-1]".
TopStage(clean_up_stack) == clean_up_stack[Len(clean_up_stack)]

\* clean_up is called.  The locals stages, started, ended, interrupts and
\* late keep the argument, the stages in the order they were started and in
\* the order they came to their end, the number of KeyboardInterrupts, and
\* the number of those that arrived after the end of a stage.
clean_up_start(p, clean_up_stack) ==
    /\ proc[p].pc = "none"
    /\ proc' = [proc EXCEPT ![p] =
                   [NoObject EXCEPT !.pc = "cleanup_loop",
                                    !.loc = [NoLocals EXCEPT !.clean_up_stack = clean_up_stack,
                                                             !.stages = clean_up_stack]]]
    /\ UNCHANGED <<stacks, jobs, s3>>

\* "while clean_up_stack": the stage on top is called, or clean_up returns
\* the messages.
clean_up_loop(p) ==
    LET o == proc[p] IN
    /\ o.pc = "cleanup_loop"
    /\ proc' = [proc EXCEPT ![p] =
          IF o.loc.clean_up_stack = <<>>
            THEN [o EXCEPT !.pc = "ready", !.last = "clean_up", !.message = o.loc.messages]
            ELSE [o EXCEPT !.pc = "cleanup_stage",
                           !.loc.started = Append(@, TopStage(o.loc.clean_up_stack).id)]]
    /\ UNCHANGED <<stacks, jobs, s3>>

\* The stage comes to its end: it returns, or raises and the handler is
\* entered.
clean_up_stage(p) ==
    LET o == proc[p]
        stage == TopStage(o.loc.clean_up_stack)
    IN
    /\ o.pc = "cleanup_stage"
    /\ proc' = [proc EXCEPT ![p].pc = IF stage.raises THEN "cleanup_except" ELSE "cleanup_pop",
                             ![p].loc.ended = Append(@, stage.id)]
    /\ UNCHANGED <<stacks, jobs, s3>>

\* "except Exception as err: ... messages.append(str(err))"
clean_up_except(p) ==
    LET o == proc[p] IN
    /\ o.pc = "cleanup_except"
    /\ proc' = [proc EXCEPT ![p].pc = "cleanup_pop",
                             ![p].loc.messages =
                                 Append(@, ErrText(TopStage(o.loc.clean_up_stack)))]
    /\ UNCHANGED <<stacks, jobs, s3>>

\* "clean_up_stack.pop()"
clean_up_pop(p) ==
    LET o == proc[p] IN
    /\ o.pc = "cleanup_pop"
    /\ proc' = [proc EXCEPT ![p].pc = "cleanup_loop",
                             ![p].loc.clean_up_stack = SubSeq(@, 1, Len(@) - 1)]
    /\ UNCHANGED <<stacks, jobs, s3>>

\* A KeyboardInterrupt arrives inside the outer try block: during the
\* stage (the inner handler raises it again), in the handler of an
\* Exception, or before the pop.  The outer handler logs it and the outer
\* loop goes on with the stack as it is.
clean_up_interrupt(p) ==
    LET o == proc[p] IN
    /\ o.pc \in {"cleanup_stage", "cleanup_except", "cleanup_pop"}
    /\ o.loc.interrupts < MaxInterrupts
    /\ proc' = [proc EXCEPT ![p].pc = "cleanup_loop",
                             ![p].loc.interrupts = @ + 1,
                             ![p].loc.late = IF o.pc = "cleanup_stage" THEN @ ELSE @ + 1]
    /\ UNCHANGED <<stacks, jobs, s3>>

NextCleanUp ==
    \/ \E clean_up_stack \in CleanUpStacks : clean_up_start(Creator, clean_up_stack) /\ Step
    \/ clean_up_loop(Creator) /\ Step
    \/ clean_up_stage(Creator) /\ Step
    \/ clean_up_except(Creator) /\ Step
    \/ clean_up_pop(Creator) /\ Step
    \/ clean_up_interrupt(Creator) /\ Step

SpecCleanUp == Init /\ [][NextCleanUp]_vars

\* The ids of the stages of a stack, the last pushed first, and the texts
\* of those that raise, in that order.
RECURSIVE LifoIds(_)
LifoIds(stages) ==
    IF stages = <<>> THEN <<>>
    ELSE <<stages[Len(stages)].id>> \o LifoIds(SubSeq(stages, 1, Len(stages) - 1))

RECURSIVE LifoMessages(_)
LifoMessages(stages) ==
    IF stages = <<>> THEN <<>>
    ELSE (IF stages[Len(stages)].raises THEN <<ErrText(stages[Len(stages)])>> ELSE <<>>)
            \o LifoMessages(SubSeq(stages, 1, Len(stages) - 1))

\* A sequence without the repeats of an element right after itself.
RECURSIVE Squeeze(_)
Squeeze(seq) ==
    IF Len(seq) <= 1 THEN seq
    ELSE IF seq[1] = seq[2] THEN Squeeze(Tail(seq))
    ELSE <<seq[1]>> \o Squeeze(Tail(seq))

\* clean_up has returned.
CleanUpReturned(p) == proc[p].pc = "ready" /\ proc[p].last = "clean_up"

\* C39 as stated: clean_up returns with the stack empty, every stage
\* executed once, the last pushed first, and one message for each stage
\* that raised, in the order of execution, also when a KeyboardInterrupt
\* arrived.
C39_Original ==
    \A p \in Procs :
       CleanUpReturned(p) =>
          /\ proc[p].loc.clean_up_stack = <<>>
          /\ proc[p].loc.ended = LifoIds(proc[p].loc.stages)
          /\ proc[p].message = LifoMessages(proc[p].loc.stages)

\* C39: clean_up returns with the stack empty and every stage executed, the
\* last pushed first; a KeyboardInterrupt makes the stage on top of the
\* stack start again, so that stages and messages repeat only right after
\* themselves; every stage has run to its end once and every stage that
\* raised has one message when no KeyboardInterrupt arrived between the end
\* of a stage and its removal from the stack.
C39_CleanUpRunsEveryStage ==
    \A p \in Procs :
       CleanUpReturned(p) =>
          /\ proc[p].loc.clean_up_stack = <<>>
          /\ proc[p].err = "none"
          /\ Squeeze(proc[p].loc.started) = LifoIds(proc[p].loc.stages)
          /\ Squeeze(proc[p].loc.ended) = LifoIds(proc[p].loc.stages)
          /\ Squeeze(proc[p].message) = LifoMessages(proc[p].loc.stages)
          /\ Len(proc[p].loc.ended) <= Len(proc[p].loc.stages) + proc[p].loc.late
          /\ proc[p].loc.late = 0 =>
                /\ proc[p].loc.ended = LifoIds(proc[p].loc.stages)
                /\ proc[p].message = LifoMessages(proc[p].loc.stages)

\* clean_up has returned from three stages of which the second and the
\* third raised, after a KeyboardInterrupt during a stage.
C39_Witness ==
    \E p \in Procs :
       /\ CleanUpReturned(p)
       /\ Len(proc[p].loc.stages) = MaxStages
       /\ Len(proc[p].message) >= 2
       /\ proc[p].loc.interrupts > 0 /\ proc[p].loc.late = 0


(***************************************************************************)
(* Constructor calls and deletions of runs of both modules, dry runs       *)
(* included.                                                               *)
(***************************************************************************)
EnsureConfigs ==
    {ElasticBlastConfig(ResultsR1, "", dry_run, module) :
        dry_run \in BOOLEAN, module \in {"elastic_blast", "elb"}}

NextEnsure ==
    \/ \E p \in Procs, cfg \in EnsureConfigs, create \in BOOLEAN :
          Construct(p, cfg, create) /\ Call
    \/ \E p \in Procs : Ensure(p) /\ Step
    \/ \E p \in Procs : Delete(p)
    \/ \E k \in 1..MaxStacks : stack_progress(k) /\ Step

SpecEnsure == Init /\ [][NextEnsure]_vars

\* The constructor call of p has returned without error, and nothing was
\* called on the object since.
EnsureReturned(p) ==
    proc[p].pc = "ready" /\ proc[p].last = "init" /\ proc[p].err = "none"

BothNamesSet(o) == o.job_queue_name # 0 /\ o.job_definition_name # 0

BothNamesUnset(o) == o.job_queue_name = 0 /\ o.job_definition_name = 0

HoldsCompleteStack(o) ==
    /\ ~o.cfg.dry_run
    /\ o.cf_stack # NoHandle
    /\ o.cf_stack.status = "CREATE_COMPLETE"

\* C40: after the constructor has returned without error, job queue name
\* and job definition name are both set if and only if the run is no dry
\* run and the object holds a stack handle of status CREATE_COMPLETE, and
\* are both unset otherwise; an attach to a stack in any other status
\* returns without error.
C40_QueueNamesIffComplete ==
    [][\A p \in Procs :
          /\ EnsureReturned(p)' =>
                /\ BothNamesSet(proc'[p]) <=> HoldsCompleteStack(proc'[p])
                /\ BothNamesUnset(proc'[p]) <=> ~HoldsCompleteStack(proc'[p])
          /\ proc[p].pc = "outputs" /\ proc'[p] # proc[p]
                /\ ~proc[p].create /\ ~HoldsCompleteStack(proc[p]) =>
                /\ EnsureReturned(p)'
                /\ BothNamesUnset(proc'[p])]_vars

\* An attach has returned with the handle of a stack that is still being
\* created and without the two names, and another with both names.
C40_Witness ==
    \E p, q \in Procs :
       /\ EnsureReturned(p) /\ ~proc[p].create /\ ~proc[p].cfg.dry_run
       /\ proc[p].cf_stack.status = "CREATE_IN_PROGRESS"
       /\ BothNamesUnset(proc[p])
       /\ EnsureReturned(q) /\ ~proc[q].create /\ BothNamesSet(proc[q])

====
